---- MODULE Spec2Model ----
(***************************************************************************)
(* Call orchestration and routing decisions of the dealer BDC platform:    *)
(* opt-out compliance gate, calling window, retry scheduling, the          *)
(* trigger-call job and the routing engine.                                *)
(***************************************************************************)
EXTENDS Integers, Sequences, FiniteSets, TLC

VARIABLES
    optOuts,          \* rows of table opt_outs
    optCheck,         \* the last checkOptOut / addOptOut call and its outcome
    now,              \* the clock (new Date()), in minutes since a Sunday 00:00 UTC
    dealerRows,       \* rows of table dealers
    callingProfiles,  \* rows of table dealer_calling_profiles
    winRet,           \* the last isWithinCallingWindow call and its result
    callAttempts,     \* rows of table call_attempts
    retryRet,         \* the last CallService / getRetryDelay call and its outcome
    runs,             \* the runs of job trigger-call, by event
    callSessions,     \* rows of table call_sessions
    aiCalls,          \* the calls the provider was told to place (client.aiCall)
    routingRules,     \* rows of table routing_rules
    dealerUsers,      \* rows of table dealer_users
    routeRet,         \* the last call of route and its outcome
    transcripts,      \* rows of table transcripts
    sentEvents,       \* the events sent with inngest.send
    lastDelivery,     \* the last callback or SWAIG function call delivered
    storeError,       \* the error the store raised on the last session update, or None
    rateRet           \* the last call of checkRateLimits and its outcome

optOutVars == <<optOuts, optCheck>>
configVars == <<dealerRows, callingProfiles>>
windowVars == <<now, winRet>>
callVars == <<callAttempts, retryRet>>
jobVars == <<runs, callSessions, aiCalls>>

routingVars == <<routingRules, dealerUsers, routeRet>>

callbackVars == <<transcripts, sentEvents, lastDelivery, storeError>>

rateVars == <<rateRet>>

vars == <<optOutVars, configVars, windowVars, callVars, jobVars, routingVars, callbackVars, rateVars>>

(***************************************************************************)
(* Bounds of the model                                                     *)
(***************************************************************************)
MaxOptOuts == 2
MaxAttemptNumber == 5
MaxTranscripts == 2
MaxCallbackClock == 1
MaxSessions == 3

(***************************************************************************)
(* Values                                                                  *)
(***************************************************************************)
None == "none"

Dealers == {"d1", "d2"}

\* Rows of table leads: one lead of each dealer, phones stored in E.164.
LeadRows ==
    {[id |-> "l1", dealerId |-> "d1",
      phone |-> <<"+", "1", "9", "1", "9", "5", "5", "5", "1", "2", "3", "4">>],
     [id |-> "l2", dealerId |-> "d2",
      phone |-> <<"+", "1", "9", "1", "9", "5", "5", "5", "0", "0", "0", "0">>]}

Leads == {l.id : l \in LeadRows}

Digits == {"0", "1", "2", "3", "4", "5", "6", "7", "8", "9"}

\* Phone numbers as the callers write them: sequences of characters.
PhoneA10 == <<"9", "1", "9", "5", "5", "5", "1", "2", "3", "4">>
PhoneAFmt == <<"(", "9", "1", "9", ")", " ", "5", "5", "5", "-", "1", "2", "3", "4">>
PhoneA11 == <<"+", "1", "9", "1", "9", "5", "5", "5", "1", "2", "3", "4">>
PhoneB10 == <<"9", "1", "9", "5", "5", "5", "0", "0", "0", "0">>

RawPhones == {PhoneA10, PhoneAFmt, PhoneA11, PhoneB10}

Emails == {"a@x.com"}

OptOutTypes == {"call", "sms", "email", "all"}
Channels == {"call", "sms", "email"}

(***************************************************************************)
(* phoneUtils.toE164                                                       *)
(***************************************************************************)
IsDigit(ch) == ch \in Digits

StartsWith(s, ch) == Len(s) > 0 /\ s[1] = ch

toE164(phone) ==
    LET digits == SelectSeq(phone, IsDigit)
    IN  IF Len(digits) = 10 THEN <<"+", "1">> \o digits
        ELSE IF Len(digits) = 11 /\ StartsWith(digits, "1") THEN <<"+">> \o digits
        ELSE IF StartsWith(digits, "+") THEN digits
        ELSE <<"+">> \o digits

(***************************************************************************)
(* The store's findFirst: the first matching row, or undefined when no row *)
(* matches (never null).                                                   *)
(***************************************************************************)
Undefined == [kind |-> "undefined"]
Null == [kind |-> "null"]
Row(r) == [kind |-> "row", row |-> r]

findFirst(rows) == IF rows = {} THEN Undefined ELSE Row(CHOOSE r \in rows : TRUE)

(***************************************************************************)
(* LeadService: opt-outs                                                   *)
(***************************************************************************)
\* The where-clause of isOptedOut.
OptOutWhere(rows, dealerId, normalizedPhone, channel) ==
    {r \in rows : /\ r.dealerId = dealerId
                  /\ r.phone = normalizedPhone
                  /\ (r.optOutType = channel \/ r.optOutType = "all")}

\* A record that suppresses the channel for the dealer and the phone exists.
HasBlockingRecord(rows, dealerId, phone, channel) ==
    \E r \in rows : /\ r.dealerId = dealerId
                    /\ r.phone = toE164(phone)
                    /\ r.optOutType \in {channel, "all"}

\* isOptedOut as it would be with the 'all' scope left out of the where-clause.
isOptedOutChannelOnly(rows, dealerId, phone, channel) ==
    \E r \in rows : /\ r.dealerId = dealerId
                    /\ r.phone = toE164(phone)
                    /\ r.optOutType = channel

isOptedOut(rows, dealerId, phone, channel) ==
    LET normalizedPhone == toE164(phone)
        optOut == findFirst(OptOutWhere(rows, dealerId, normalizedPhone, channel))
    IN  optOut # Null

\* checkOptOut: the error it raises, or None.
checkOptOut(rows, dealerId, phone, channel) ==
    IF isOptedOut(rows, dealerId, phone, channel) THEN "OptOutError" ELSE None

NoCheck ==
    [op |-> "none", dealerId |-> None, phone |-> <<>>, channel |-> None,
     result |-> FALSE, raised |-> None, seq |-> 0]

\* A call of checkOptOut (which calls isOptedOut): what isOptedOut returned and
\* what checkOptOut raised.  seq flips on every call of the service.
CheckOptOutCall(dealerId, phone, channel) ==
    /\ optCheck' = [op |-> "checkOptOut", dealerId |-> dealerId, phone |-> phone,
                    channel |-> channel,
                    result |-> isOptedOut(optOuts, dealerId, phone, channel),
                    raised |-> checkOptOut(optOuts, dealerId, phone, channel),
                    seq |-> 1 - optCheck.seq]
    /\ UNCHANGED optOuts

\* addOptOut: the row it inserts (phone and email normalised).  Emails of the
\* model are already trimmed and lower-case, which normalize leaves alone.
OptOutRow(dealerId, phone, email, type) ==
    [dealerId |-> dealerId,
     phone |-> IF phone = <<>> THEN <<>> ELSE toE164(phone),
     email |-> email,
     optOutType |-> type]

\* addOptOut: the error raised (or None) and the table afterwards.
\* contact.phone absent is the empty sequence, contact.email absent is None.
addOptOut(rows, dealerId, phone, email, type) ==
    IF phone = <<>> /\ email = None
    THEN [raised |-> "ValidationError", table |-> rows]
    ELSE [raised |-> None, table |-> rows \cup {OptOutRow(dealerId, phone, email, type)}]

AddOptOut(dealerId, phone, email, type) ==
    LET out == addOptOut(optOuts, dealerId, phone, email, type)
    IN  /\ out.raised = None => Cardinality(optOuts) < MaxOptOuts
        /\ optOuts' = out.table
        /\ optCheck' = [NoCheck EXCEPT !.op = "addOptOut", !.dealerId = dealerId,
                                       !.raised = out.raised,
                                       !.seq = 1 - optCheck.seq]

\* The contacts addOptOut is called with: a phone, an email alone, or neither.
Contacts ==
    {<<p, None>> : p \in RawPhones} \cup {<<(<<>>), e>> : e \in Emails \cup {None}}

(***************************************************************************)
(* Dealers and calling profiles                                            *)
(***************************************************************************)
MinutesPerHour == 60
MinutesPerDay == 24 * MinutesPerHour
MinutesPerWeek == 7 * MinutesPerDay

\* Offset from UTC, in minutes, of the IANA zones of the model (standard time).
UtcOffset(timezone) ==
    CASE timezone = "America/New_York" -> -300
      [] timezone = "Asia/Kolkata" -> 330
      [] OTHER -> 0

\* The profile getCallingProfile returns for a dealer without a profile row.
DefaultProfile(dealerId) ==
    [dealerId |-> dealerId,
     callingHoursStart |-> <<8, 0, 0>>,
     callingHoursEnd |-> <<20, 0, 0>>,
     callingDaysOfWeek |-> {1, 2, 3, 4, 5, 6},
     maxConcurrentCalls |-> 3,
     maxCallsPerHour |-> 50,
     maxAttemptsPerLead |-> 3,
     retryDelayMinutes |-> <<30, 120, 1440>>]

getDealer(dealerId) == CHOOSE r \in dealerRows : r.id = dealerId

getCallingProfile(dealerId) ==
    LET profile == findFirst({r \in callingProfiles : r.dealerId = dealerId})
    IN  IF profile \in {Undefined, Null} THEN DefaultProfile(dealerId) ELSE profile.row

\* Every dealer exists, in UTC, and none has a profile row.
DefaultConfig ==
    /\ dealerRows = {[id |-> d, timezone |-> "UTC"] : d \in Dealers}
    /\ callingProfiles = {}

(***************************************************************************)
(* DealerService.isWithinCallingWindow                                     *)
(***************************************************************************)
\* date-fns-tz toZonedTime and date-fns getDay, getHours, getMinutes, on
\* instants counted in minutes from a Sunday 00:00 UTC.
toZonedTime(date, timezone) == (date + UtcOffset(timezone)) % MinutesPerWeek

getDay(zonedDate) == zonedDate \div MinutesPerDay

getHours(zonedDate) == (zonedDate % MinutesPerDay) \div MinutesPerHour

getMinutes(zonedDate) == zonedDate % MinutesPerHour

\* A time column 'HH:MM:SS' is held as the numbers <<HH, MM, SS>> that
\* split(':').map(Number) makes of it; the code reads the first two.
\* isWithinCallingWindow with the end of the window excluded.
isWithinCallingWindowEndExclusive(dealerId, date) ==
    LET dealer == getDealer(dealerId)
        profile == getCallingProfile(dealerId)
        zonedDate == toZonedTime(date, dealer.timezone)
        currentTimeMinutes == getHours(zonedDate) * 60 + getMinutes(zonedDate)
        startTimeMinutes == profile.callingHoursStart[1] * 60
                              + profile.callingHoursStart[2]
        endTimeMinutes == profile.callingHoursEnd[1] * 60 + profile.callingHoursEnd[2]
    IN  /\ getDay(zonedDate) \in profile.callingDaysOfWeek
        /\ currentTimeMinutes >= startTimeMinutes
        /\ currentTimeMinutes < endTimeMinutes

\* isWithinCallingWindow as it would be without the weekday check.
isWithinCallingWindowAnyDay(dealerId, date) ==
    LET dealer == getDealer(dealerId)
        profile == getCallingProfile(dealerId)
        zonedDate == toZonedTime(date, dealer.timezone)
        currentTimeMinutes == getHours(zonedDate) * 60 + getMinutes(zonedDate)
        startTimeMinutes == profile.callingHoursStart[1] * 60
                              + profile.callingHoursStart[2]
        endTimeMinutes == profile.callingHoursEnd[1] * 60 + profile.callingHoursEnd[2]
    IN  /\ currentTimeMinutes >= startTimeMinutes
        /\ currentTimeMinutes <= endTimeMinutes

isWithinCallingWindow(dealerId, date) ==
    LET dealer == getDealer(dealerId)
        profile == getCallingProfile(dealerId)
        zonedDate == toZonedTime(date, dealer.timezone)
        dayOfWeek == getDay(zonedDate)
    IN  IF dayOfWeek \notin profile.callingDaysOfWeek
        THEN FALSE
        ELSE LET currentHour == getHours(zonedDate)
                 currentMinute == getMinutes(zonedDate)
                 currentTimeMinutes == currentHour * 60 + currentMinute
                 start == profile.callingHoursStart
                 end == profile.callingHoursEnd
                 startTimeMinutes == start[1] * 60 + start[2]
                 endTimeMinutes == end[1] * 60 + end[2]
             IN  currentTimeMinutes >= startTimeMinutes
                   /\ currentTimeMinutes <= endTimeMinutes

NoWin == [op |-> "none", dealerId |-> None, date |-> 0, result |-> FALSE]

\* isWithinCallingWindow(dealerId) with date = new Date().
IsWithinCallingWindowCall(dealerId) ==
    /\ winRet' = [op |-> "isWithinCallingWindow", dealerId |-> dealerId, date |-> now,
                  result |-> isWithinCallingWindow(dealerId, now)]
    /\ UNCHANGED now

\* A minute passes; the week of the model wraps around.
TickMinute ==
    /\ now' = (now + 1) % MinutesPerWeek
    /\ winRet' = NoWin

(***************************************************************************)
(* DealerService.getRetryDelay and CallService: call attempts              *)
(***************************************************************************)
Min(a, b) == IF a <= b THEN a ELSE b

\* array[index] of JavaScript (0-based): undefined outside the array.
Num(n) == [kind |-> "number", value |-> n]

ArrayAt(array, index) ==
    IF index >= 0 /\ index < Len(array) THEN Num(array[index + 1]) ELSE Undefined

\* value || fallback on numbers: undefined and 0 are falsy.
OrElse(value, fallback) ==
    IF value.kind = "undefined" \/ value.value = 0 THEN fallback ELSE value.value

getRetryDelay(dealerId, attemptNumber) ==
    LET profile == getCallingProfile(dealerId)
        delayIndex == Min(attemptNumber - 1, Len(profile.retryDelayMinutes) - 1)
    IN  OrElse(ArrayAt(profile.retryDelayMinutes, delayIndex), 1440)

\* A row of call_attempts.  The id is new: the lead, the number and the job run
\* that inserted the row (0: none).
AttemptRow(dealerId, leadId, attemptNumber, scheduledFor, run) ==
    [id |-> <<leadId, attemptNumber, run>>,
     dealerId |-> dealerId,
     leadId |-> leadId,
     attemptNumber |-> attemptNumber,
     status |-> IF scheduledFor # Null THEN "scheduled" ELSE "pending",
     scheduledFor |-> scheduledFor,
     callSessionId |-> Null,
     attemptedAt |-> Null,
     failureReason |-> Null,
     run |-> run]

\* getLatestCallAttempt: the row of the lead with the highest number, or null.
getLatestCallAttempt(leadId) ==
    LET rows == {a \in callAttempts : a.leadId = leadId}
    IN  IF rows = {} THEN Null
        ELSE Row(CHOOSE a \in rows : \A b \in rows : b.attemptNumber <= a.attemptNumber)

\* (latestAttempt?.attemptNumber || 0) + 1
NextAttemptNumber(leadId) ==
    LET latestAttempt == getLatestCallAttempt(leadId)
    IN  OrElse(IF latestAttempt = Null THEN Undefined
               ELSE Num(latestAttempt.row.attemptNumber), 0) + 1

\* Index unique_lead_attempt rejects a second row of the lead with the number.
UniqueLeadAttempt(leadId, attemptNumber) ==
    \A a \in callAttempts : ~(a.leadId = leadId /\ a.attemptNumber = attemptNumber)

\* createCallAttempt on a table without index unique_lead_attempt.
createCallAttemptNoIndex(dealerId, leadId, attemptNumber, scheduledFor, run) ==
    LET profile == getCallingProfile(dealerId)
        attempt == AttemptRow(dealerId, leadId, attemptNumber, scheduledFor, run)
    IN  IF attemptNumber > profile.maxAttemptsPerLead
        THEN [raised |-> "MaxAttemptsError", table |-> callAttempts, attempt |-> Null]
        ELSE [raised |-> None, table |-> callAttempts \cup {attempt}, attempt |-> Row(attempt)]

\* createCallAttempt without the ceiling check.
createCallAttemptUnchecked(dealerId, leadId, attemptNumber, scheduledFor, run) ==
    LET attempt == AttemptRow(dealerId, leadId, attemptNumber, scheduledFor, run)
    IN  IF ~UniqueLeadAttempt(leadId, attemptNumber)
        THEN [raised |-> "UniqueViolation", table |-> callAttempts, attempt |-> Null]
        ELSE [raised |-> None, table |-> callAttempts \cup {attempt}, attempt |-> Row(attempt)]

\* createCallAttempt: the error raised (or None), the table afterwards and the
\* row returned.
createCallAttempt(dealerId, leadId, attemptNumber, scheduledFor, run) ==
    LET profile == getCallingProfile(dealerId)
        attempt == AttemptRow(dealerId, leadId, attemptNumber, scheduledFor, run)
    IN  IF attemptNumber > profile.maxAttemptsPerLead
        THEN [raised |-> "MaxAttemptsError", table |-> callAttempts, attempt |-> Null]
        ELSE IF ~UniqueLeadAttempt(leadId, attemptNumber)
        THEN [raised |-> "UniqueViolation", table |-> callAttempts, attempt |-> Null]
        ELSE [raised |-> None, table |-> callAttempts \cup {attempt}, attempt |-> Row(attempt)]

scheduleRetry(dealerId, leadId) ==
    LET nextAttemptNumber == NextAttemptNumber(leadId)
        delayMinutes == getRetryDelay(dealerId, nextAttemptNumber)
        scheduledFor == Num(now + delayMinutes)
    IN  createCallAttempt(dealerId, leadId, nextAttemptNumber, scheduledFor, 0)

NoRetry ==
    [op |-> "none", dealerId |-> None, leadId |-> None, attemptNumber |-> 0,
     delay |-> 0, raised |-> None, attempt |-> Null]

CreateCallAttemptCall(lead, attemptNumber) ==
    LET out == createCallAttempt(lead.dealerId, lead.id, attemptNumber, Null, 0)
    IN  /\ callAttempts' = out.table
        /\ retryRet' = [op |-> "createCallAttempt", dealerId |-> lead.dealerId,
                        leadId |-> lead.id, attemptNumber |-> attemptNumber,
                        delay |-> 0, raised |-> out.raised, attempt |-> out.attempt]

ScheduleRetryCall(lead) ==
    LET out == scheduleRetry(lead.dealerId, lead.id)
    IN  /\ callAttempts' = out.table
        /\ retryRet' = [op |-> "scheduleRetry", dealerId |-> lead.dealerId,
                        leadId |-> lead.id,
                        attemptNumber |-> NextAttemptNumber(lead.id),
                        delay |-> getRetryDelay(lead.dealerId, NextAttemptNumber(lead.id)),
                        raised |-> out.raised, attempt |-> out.attempt]

GetRetryDelayCall(dealerId, attemptNumber) ==
    /\ retryRet' = [NoRetry EXCEPT !.op = "getRetryDelay", !.dealerId = dealerId,
                                   !.attemptNumber = attemptNumber,
                                   !.delay = getRetryDelay(dealerId, attemptNumber)]
    /\ UNCHANGED callAttempts

(***************************************************************************)
(* Job trigger-call                                                        *)
(***************************************************************************)
\* retries: 2 -- a step that throws is run again twice, then the run fails.
Retries == 2

\* The pixel-event/high-intent events that may arrive, one run each.
Events ==
    {[id |-> 1, dealer_id |-> "d1", lead_id |-> "l1"],
     [id |-> 2, dealer_id |-> "d2", lead_id |-> "l2"],
     [id |-> 3, dealer_id |-> "d2", lead_id |-> "l3"]}

EventIds == {e.id : e \in Events}

\* A lead whose phone column is null (the empty sequence).
NoPhoneLead == [id |-> "l3", dealerId |-> "d2", phone |-> <<>>]

LeadTable == LeadRows \cup {NoPhoneLead}

\* Rows of table dealer_numbers.
DealerNumberRows ==
    {[dealerId |-> "d1", phoneNumber |-> "+19198880001", status |-> "active"],
     [dealerId |-> "d2", phoneNumber |-> "+19198880002", status |-> "active"],
     [dealerId |-> "d2", phoneNumber |-> "+19198880003", status |-> "inactive"]}

\* getLead: the error raised (or None) and the lead.
getLead(leadId) ==
    LET lead == findFirst({l \in LeadTable : l.id = leadId})
    IN  IF lead = Undefined
        THEN [raised |-> "LeadNotFoundError", lead |-> Null]
        ELSE [raised |-> None, lead |-> lead.row]

\* Statuses of a call session that is still in flight.
InFlightStatuses == {"initiated", "ringing", "answered", "in_progress"}

\* The in-flight call sessions of the dealer.
getCurrentConcurrentCalls(dealerId) ==
    Cardinality({s \in callSessions : s.dealerId = dealerId
                                        /\ s.status \in InFlightStatuses})

\* The call sessions of the dealer initiated in the trailing 60 minutes.
getCallsInLastHour(dealerId) ==
    Cardinality({s \in callSessions :
                    /\ s.dealerId = dealerId
                    /\ (now - s.initiatedAt) % MinutesPerWeek < MinutesPerHour})

\* The uuid of a row that exists, for a nullable reference column.
Uuid(id) == [kind |-> "uuid", value |-> id]

\* A row of call_sessions as createCallSession inserts it.
NewSession(id, dealerId, leadId, fromNumber, toNumber, date, run) ==
    [id |-> id,
     dealerId |-> dealerId,
     leadId |-> leadId,
     fromNumber |-> fromNumber,
     toNumber |-> toNumber,
     signalwireCallSid |-> Null,
     swaigSessionId |-> Null,
     status |-> "initiated",
     outcome |-> Null,
     initiatedAt |-> date,
     answeredAt |-> Null,
     endedAt |-> Null,
     durationSeconds |-> Null,
     transferredToUserId |-> Null,
     transferCompleted |-> FALSE,
     qualification |-> Null,
     updatedAt |-> date,
     run |-> run]

\* createCallSession: the row inserted.  The id is new: the run and the number
\* of sessions the run has created before.
SessionRow(run, dealerId, leadId, fromNumber, toNumber) ==
    NewSession(<<run, Cardinality({s \in callSessions : s.run = run})>>, dealerId, leadId,
               fromNumber, toNumber, now, run)

\* The statuses the CHECK constraint of column call_sessions.status admits.
PermittedStatuses ==
    {"initiated", "ringing", "answered", "in_progress", "transferred", "completed",
     "failed", "no_answer", "busy", "voicemail"}

\* The store rejects an UPDATE of a session that sets a status outside the
\* CHECK constraint (check_violation), or a transferredToUserId that is the
\* id of no user (foreign_key_violation).
UpdateViolation(input) ==
    IF "status" \in DOMAIN input /\ input.status \notin PermittedStatuses
    THEN "check_violation"
    ELSE IF /\ "transferredToUserId" \in DOMAIN input
            /\ input.transferredToUserId # Null
            /\ \A u \in dealerUsers : Uuid(u.id) # input.transferredToUserId
    THEN "foreign_key_violation"
    ELSE None

\* The error the UPDATE raises when updated tells that a row has that id.
updateError(updated, input) == IF updated THEN UpdateViolation(input) ELSE None

\* updateCallSession / updateCallAttempt: the table with the row of that id
\* changed.  input is the record of the columns to set; updatedAt is set too.
\* A rejected UPDATE changes no row.
updateCallSession(rows, callSessionId, input) ==
    IF UpdateViolation(input) # None THEN rows
    ELSE {IF s.id = callSessionId
          THEN [column \in DOMAIN s |->
                   IF column \in DOMAIN input THEN input[column]
                   ELSE IF column = "updatedAt" THEN now
                   ELSE s[column]]
          ELSE s : s \in rows}

updateCallAttempt(rows, attemptId, status, callSessionId, attemptedAt) ==
    {IF a.id = attemptId
     THEN [a EXCEPT !.status = status, !.callSessionId = Uuid(callSessionId),
                    !.attemptedAt = Num(attemptedAt)]
     ELSE a : a \in rows}

\* The call the provider is told to place.
AiCall(run, session, lead) ==
    [id |-> <<"swaig", session.id>>, to |-> lead.phone, from |-> session.fromNumber,
     call_session_id |-> session.id, run |-> run]

SkipResult == [skipped |-> TRUE, reason |-> "outside_calling_hours", will_retry |-> FALSE]

SuccessResult(callSession, lead, dealerNumber) ==
    [success |-> TRUE, call_session_id |-> callSession.id, lead_phone |-> lead.phone,
     dealer_number |-> dealerNumber.phoneNumber]

Steps ==
    {"check-calling-window", "get-lead-and-check-optout", "check-rate-limits",
     "get-dealer-number", "create-call-attempt", "initiate-swaig-call"}

\* A run before its event has arrived.  checkedAt is the instant step
\* check-calling-window read the clock; blockedAtTrigger tells whether a record
\* suppressing calls to the lead's phone existed when the event arrived.
IdleRun(e) ==
    [dealer_id |-> e.dealer_id, lead_id |-> e.lead_id, pc |-> "idle", tries |-> 0,
     error |-> None, canCall |-> FALSE, checkedAt |-> 0, blockedAtTrigger |-> FALSE,
     lead |-> Null, dealerNumber |-> Null, attemptNumber |-> 0, callAttempt |-> Null,
     callSession |-> Null, result |-> Null]

\* The event arrives and the run starts.
Trigger(e) ==
    /\ runs[e.id].pc = "idle"
    /\ runs' = [runs EXCEPT ![e.id] =
                   [@ EXCEPT !.pc = "check-calling-window",
                             !.blockedAtTrigger =
                                 \E l \in LeadTable :
                                     /\ l.id = e.lead_id
                                     /\ l.phone # <<>>
                                     /\ HasBlockingRecord(optOuts, e.dealer_id, l.phone, "call")]]
    /\ UNCHANGED <<callAttempts, callSessions, aiCalls>>

\* The step threw: it is run again, and after the last retry the run fails.
StepFailed(run, error) ==
    IF run.tries >= Retries
    THEN [run EXCEPT !.pc = "failed", !.error = error, !.tries = @ + 1]
    ELSE [run EXCEPT !.error = error, !.tries = @ + 1]

\* The step returned: its result is memoized and the next step is due.
StepDone(run, next) == [run EXCEPT !.pc = next, !.tries = 0, !.error = None]

\* Step 1, check-calling-window, and the return that follows it.
CheckCallingWindow(t) ==
    LET run == runs[t]
        canCall == isWithinCallingWindow(run.dealer_id, now)
        seen == [run EXCEPT !.canCall = canCall, !.checkedAt = now]
    IN  /\ runs' = [runs EXCEPT ![t] =
                       IF ~canCall
                       THEN [StepDone(seen, "returned") EXCEPT !.result = SkipResult]
                       ELSE StepDone(seen, "get-lead-and-check-optout")]
        /\ UNCHANGED <<callAttempts, callSessions, aiCalls>>

\* Step 2, get-lead-and-check-optout.
GetLeadAndCheckOptout(t) ==
    LET run == runs[t]
        got == getLead(run.lead_id)
        error == IF got.raised # None THEN got.raised
                 ELSE IF got.lead.phone = <<>> THEN "Error: Lead has no phone number"
                 ELSE checkOptOut(optOuts, run.dealer_id, got.lead.phone, "call")
    IN  /\ runs' = [runs EXCEPT ![t] =
                       IF error # None THEN StepFailed(run, error)
                       ELSE [StepDone(run, "check-rate-limits") EXCEPT !.lead = Row(got.lead)]]
        /\ UNCHANGED <<callAttempts, callSessions, aiCalls>>

\* Step 2 when the query of isOptedOut is rejected by the store: the lead was
\* loaded and has a phone, and the step throws the store's error.
OptOutLookupFails(t) ==
    LET run == runs[t]
        got == getLead(run.lead_id)
    IN  /\ run.pc = "get-lead-and-check-optout"
        /\ got.raised = None
        /\ got.lead.phone # <<>>
        /\ runs' = [runs EXCEPT ![t] = StepFailed(run, "StorageError")]
        /\ UNCHANGED <<callAttempts, callSessions, aiCalls>>

\* Step 3, check-rate-limits.
CheckRateLimits(t) ==
    LET run == runs[t]
        concurrentCalls == getCurrentConcurrentCalls(run.dealer_id)
        callsThisHour == getCallsInLastHour(run.dealer_id)
        profile == getCallingProfile(run.dealer_id)
        error == IF concurrentCalls >= profile.maxConcurrentCalls
                 THEN "Error: Max concurrent calls reached"
                 ELSE IF callsThisHour >= profile.maxCallsPerHour
                 THEN "Error: Hourly rate limit reached"
                 ELSE None
    IN  /\ runs' = [runs EXCEPT ![t] =
                       IF error # None THEN StepFailed(run, error)
                       ELSE StepDone(run, "get-dealer-number")]
        /\ UNCHANGED <<callAttempts, callSessions, aiCalls>>

\* Step 4, get-dealer-number: the first active number the query returns.
GetDealerNumber(t) ==
    LET run == runs[t]
        numbers == {n \in DealerNumberRows : n.dealerId = run.dealer_id /\ n.status = "active"}
    IN  /\ IF numbers = {}
           THEN runs' = [runs EXCEPT ![t] =
                            StepFailed(run, "Error: No active dealer phone number found")]
           ELSE \E number \in numbers :
                    runs' = [runs EXCEPT ![t] =
                                [StepDone(run, "create-call-attempt")
                                    EXCEPT !.dealerNumber = Row(number)]]
        /\ UNCHANGED <<callAttempts, callSessions, aiCalls>>

\* Step 5, create-call-attempt, up to its first await: the number after the
\* latest attempt of the lead.
ReadLatestAttempt(t) ==
    LET run == runs[t]
    IN  /\ runs' = [runs EXCEPT ![t] =
                       [run EXCEPT !.pc = "create-call-attempt: insert",
                                   !.attemptNumber = NextAttemptNumber(run.lead_id)]]
        /\ UNCHANGED <<callAttempts, callSessions, aiCalls>>

\* Step 5 from there: createCallAttempt with that number.  A step that threw
\* is run again from its start.
CreateCallAttemptStep(t) ==
    LET run == runs[t]
        out == createCallAttempt(run.dealer_id, run.lead_id, run.attemptNumber, Null, t)
        again == StepFailed(run, out.raised)
    IN  /\ runs' = [runs EXCEPT ![t] =
                       IF out.raised # None
                       THEN IF again.pc = "failed" THEN again
                            ELSE [again EXCEPT !.pc = "create-call-attempt"]
                       ELSE [StepDone(run, "initiate-swaig-call")
                                EXCEPT !.callAttempt = out.attempt]]
        /\ callAttempts' = out.table
        /\ UNCHANGED <<callSessions, aiCalls>>

\* Step 6 as it would be if the attempt were marked calling before the provider
\* is asked to place the call.
InitiateSwaigCallMarksFirst(t) ==
    LET run == runs[t]
        lead == run.lead.row
        dealerNumber == run.dealerNumber.row
        session == SessionRow(t, run.dealer_id, run.lead_id, dealerNumber.phoneNumber,
                              lead.phone)
        aiCall == AiCall(t, session, lead)
        marked == updateCallAttempt(callAttempts, run.callAttempt.row.id, "calling",
                                    session.id, now)
    IN  \E provider \in {"connect fails", "aiCall fails", "answers"} :
            CASE provider = "connect fails" ->
                    /\ runs' = [runs EXCEPT ![t] = StepFailed(run, "Error: connect")]
                    /\ UNCHANGED <<callAttempts, callSessions, aiCalls>>
              [] provider = "aiCall fails" ->
                    /\ runs' = [runs EXCEPT ![t] = StepFailed(run, "Error: aiCall")]
                    /\ callSessions' = callSessions \cup {session}
                    /\ callAttempts' = marked
                    /\ UNCHANGED aiCalls
              [] provider = "answers" ->
                    /\ aiCalls' = aiCalls \cup {aiCall}
                    /\ callSessions' =
                          updateCallSession(callSessions \cup {session}, session.id,
                                            [swaigSessionId |-> Uuid(aiCall.id)])
                    /\ callAttempts' = marked
                    /\ runs' = [runs EXCEPT ![t] =
                                   [StepDone(run, "returned")
                                       EXCEPT !.callSession = Row(session),
                                              !.result = SuccessResult(session, lead,
                                                                       dealerNumber)]]

\* Step 6, initiate-swaig-call, and the return that follows it.  The provider
\* may refuse the connection or the call; what the step wrote before stays.
InitiateSwaigCall(t) ==
    LET run == runs[t]
        lead == run.lead.row
        dealerNumber == run.dealerNumber.row
        session == SessionRow(t, run.dealer_id, run.lead_id, dealerNumber.phoneNumber,
                              lead.phone)
        aiCall == AiCall(t, session, lead)
    IN  \E provider \in {"connect fails", "aiCall fails", "answers"} :
            CASE provider = "connect fails" ->
                    /\ runs' = [runs EXCEPT ![t] = StepFailed(run, "Error: connect")]
                    /\ UNCHANGED <<callAttempts, callSessions, aiCalls>>
              [] provider = "aiCall fails" ->
                    /\ runs' = [runs EXCEPT ![t] = StepFailed(run, "Error: aiCall")]
                    /\ callSessions' = callSessions \cup {session}
                    /\ UNCHANGED <<callAttempts, aiCalls>>
              [] provider = "answers" ->
                    /\ aiCalls' = aiCalls \cup {aiCall}
                    /\ callSessions' =
                          updateCallSession(callSessions \cup {session}, session.id,
                                            [swaigSessionId |-> Uuid(aiCall.id)])
                    /\ callAttempts' =
                          updateCallAttempt(callAttempts, run.callAttempt.row.id, "calling",
                                            session.id, now)
                    /\ runs' = [runs EXCEPT ![t] =
                                   [StepDone(run, "returned")
                                       EXCEPT !.callSession = Row(session),
                                              !.result = SuccessResult(session, lead,
                                                                       dealerNumber)]]

\* The job runs the step that is due.  While isOptedOut reports every phone as
\* opted out, no run passes get-lead-and-check-optout.
TriggerCallStep(t) ==
    CASE runs[t].pc = "check-calling-window" -> CheckCallingWindow(t)
      [] runs[t].pc = "get-lead-and-check-optout" -> GetLeadAndCheckOptout(t)
      [] runs[t].pc = "check-rate-limits" -> CheckRateLimits(t)
      [] runs[t].pc = "get-dealer-number" -> GetDealerNumber(t)
      [] runs[t].pc = "create-call-attempt" -> ReadLatestAttempt(t)
      [] runs[t].pc = "create-call-attempt: insert" -> CreateCallAttemptStep(t)
      [] runs[t].pc = "initiate-swaig-call" -> InitiateSwaigCall(t)
      [] OTHER -> FALSE

\* An opt-out is recorded while the job runs.
OptOutRequests ==
    {<<"d1", PhoneAFmt, "all">>, <<"d1", PhoneA10, "call">>, <<"d2", PhoneB10, "sms">>}

OptOutRecorded(dealerId, phone, type) ==
    /\ optOuts' = addOptOut(optOuts, dealerId, phone, None, type).table
    /\ UNCHANGED optCheck

\* Time passes between the steps.
ClockStep == 42 * MinutesPerHour

ClockAdvance ==
    /\ now' = (now + ClockStep) % MinutesPerWeek
    /\ UNCHANGED winRet

(***************************************************************************)
(* RoutingEngine                                                           *)
(*                                                                         *)
(* JSON and nullable values are tagged: Str(s), Num(n), Obj(...), Null,    *)
(* Undefined.                                                              *)
(***************************************************************************)
Str(s) == [kind |-> "string", value |-> s]

\* a === b on primitive values.
StrictEquals(a, b) ==
    /\ a.kind = b.kind
    /\ a.kind \in {"string", "number"} => a.value = b.value

\* A condition object: has is the set of its property names.
Obj(has, min, max, in, exists) ==
    [kind |-> "object", has |-> has, min |-> min, max |-> max, in |-> in,
     exists |-> exists]

RangeCondition(min, max) ==
    Obj((IF min # Undefined THEN {"min"} ELSE {})
            \cup (IF max # Undefined THEN {"max"} ELSE {}),
        min, max, {}, FALSE)

InCondition(values) == Obj({"in"}, Undefined, Undefined, values, FALSE)

ExistsCondition(exists) == Obj({"exists"}, Undefined, Undefined, {}, exists)

\* Rows of table routing_rules.
RuleRow(id, dealerId, storeId, priority, conditions, routeToType, routeToId, fallbackRuleId, active) ==
    [id |-> id, dealerId |-> dealerId, storeId |-> storeId, priority |-> priority,
     conditions |-> conditions, routeToType |-> routeToType, routeToId |-> routeToId,
     fallbackRuleId |-> fallbackRuleId, active |-> active]

\* Rows of table dealer_users.
UserRow(id, dealerId, department, transferPriority) ==
    [id |-> id, dealerId |-> dealerId, department |-> department,
     acceptsTransfers |-> TRUE, transferPriority |-> transferPriority,
     status |-> "active"]

\* The results a query with ORDER BY priority DESC may return for the rows
\* that match: every sequence of them in descending priority; rows of equal
\* priority come in an order the store chooses.
RECURSIVE orderByDesc(_, _)
orderByDesc(rows, key) ==
    IF rows = {} THEN {<<>>}
    ELSE LET top == {r \in rows : \A q \in rows : q[key] <= r[key]}
         IN  UNION {{<<r>> \o rest : rest \in orderByDesc(rows \ {r}, key)} : r \in top}

\* Array.prototype.sort((a, b) => b.priority - a.priority): stable.
RECURSIVE sortByPriority(_)
sortByPriority(array) ==
    IF array = <<>> THEN <<>>
    ELSE LET last == array[Len(array)]
             sorted == sortByPriority(SubSeq(array, 1, Len(array) - 1))
             Before(r) == r.priority >= last.priority
             After(r) == r.priority < last.priority
         IN  SelectSeq(sorted, Before) \o <<last>> \o SelectSeq(sorted, After)

\* The rows the two queries of getActiveRules match.
DealerRulesWhere(dealerId) ==
    {r \in routingRules : r.dealerId = dealerId /\ r.active}

StoreRulesWhere(dealerId, storeId) ==
    {r \in DealerRulesWhere(dealerId) : r.storeId = storeId}

\* getActiveRules as it would be with the dealer's rows spread first.
getActiveRulesDealerFirst(storeId, dealerRules, storeRules) ==
    IF storeId # Undefined
    THEN sortByPriority(dealerRules \o storeRules)
    ELSE dealerRules

\* getActiveRules, given what the queries returned.
getActiveRules(storeId, dealerRules, storeRules) ==
    IF storeId # Undefined
    THEN sortByPriority(storeRules \o dealerRules)
    ELSE dealerRules

\* Number(value): null is 0; undefined and a word are NaN, and every
\* comparison with NaN is false.
NaN == [kind |-> "NaN"]

Number(value) ==
    CASE value.kind = "number" -> value
      [] value.kind = "null" -> Num(0)
      [] OTHER -> NaN

evaluateCondition(key, conditionValue, context) ==
    LET contextValue == context[key]
    IN  IF conditionValue.kind = "object"
        THEN IF "min" \in conditionValue.has \/ "max" \in conditionValue.has
             THEN LET numValue == Number(contextValue)
                  IN  /\ numValue # NaN
                      /\ "min" \in conditionValue.has
                            => numValue.value >= Number(conditionValue.min).value
                      /\ "max" \in conditionValue.has
                            => numValue.value <= Number(conditionValue.max).value
             ELSE IF "in" \in conditionValue.has
             THEN \E v \in conditionValue.in : StrictEquals(v, contextValue)
             ELSE IF "exists" \in conditionValue.has
             THEN LET exists == contextValue.kind \notin {"undefined", "null"}
                  IN  IF conditionValue.exists THEN exists ELSE ~exists
             ELSE FALSE
        ELSE StrictEquals(contextValue, conditionValue)

\* conditions is a function from its keys; the empty function matches all.
evaluateRuleConditions(conditions, context) ==
    \A key \in DOMAIN conditions : evaluateCondition(key, conditions[key], context)

UserTarget(user) == [type |-> "user", userId |-> user.id]

VoicemailTarget == [type |-> "voicemail", userId |-> None]

findAvailableUser(userId) ==
    LET user == findFirst({u \in dealerUsers : /\ Str(u.id) = userId
                                                /\ u.status = "active"
                                                /\ u.acceptsTransfers})
    IN  IF user = Undefined THEN Null ELSE Row(UserTarget(user.row))

\* users: what the query ordered by transferPriority returned for the users
\* that accept transfers.
findAvailableUserByDepartment(dealerId, department, users) ==
    LET InDepartment(u) == u.dealerId = dealerId /\ u.department = department
        found == SelectSeq(users, InDepartment)
    IN  IF Len(found) = 0 THEN Null ELSE Row(UserTarget(found[1]))

resolveRuleTarget(rule, users) ==
    CASE rule.routeToType = "user" ->
            IF rule.routeToId = Null THEN Null ELSE findAvailableUser(rule.routeToId)
      [] rule.routeToType = "department" ->
            findAvailableUserByDepartment(
                rule.dealerId,
                IF "department" \in DOMAIN rule.conditions
                THEN rule.conditions.department ELSE Undefined,
                users)
      [] rule.routeToType = "team" -> Null
      [] rule.routeToType = "voicemail" -> Row(VoicemailTarget)
      [] OTHER -> Null

\* route as it would be without the fallback lookup.
noFallbackTarget(rule, users) == Null

\* The target of the rule's fallback rule, if the rule names one that exists.
resolveFallbackTarget(rule, users) ==
    IF rule.fallbackRuleId = Null THEN Null
    ELSE LET fallbackRule == findFirst({r \in routingRules : Str(r.id) = rule.fallbackRuleId})
         IN  IF fallbackRule = Undefined THEN Null
             ELSE resolveRuleTarget(fallbackRule.row, users)

\* The loop of route over the active rules.
RECURSIVE routeRules(_, _, _)
\* route as it would be if the first matching rule ended the search.
routeRulesFirstMatch(rules, context, users) ==
    LET Matches(rule) == evaluateRuleConditions(rule.conditions, context)
        matching == SelectSeq(rules, Matches)
    IN  IF matching = <<>> THEN [raised |-> "NoAvailableRepError", target |-> Null]
        ELSE IF resolveRuleTarget(matching[1], users) # Null
        THEN [raised |-> None, target |-> resolveRuleTarget(matching[1], users)]
        ELSE IF resolveFallbackTarget(matching[1], users) # Null
        THEN [raised |-> None, target |-> resolveFallbackTarget(matching[1], users)]
        ELSE [raised |-> "NoAvailableRepError", target |-> Null]

routeRules(rules, context, users) ==
    IF rules = <<>> THEN [raised |-> "NoAvailableRepError", target |-> Null]
    ELSE LET rule == Head(rules)
             matches == evaluateRuleConditions(rule.conditions, context)
             target == resolveRuleTarget(rule, users)
             fallbackTarget == resolveFallbackTarget(rule, users)
         IN  IF matches /\ target # Null THEN [raised |-> None, target |-> target]
             ELSE IF matches /\ fallbackTarget # Null
             THEN [raised |-> None, target |-> fallbackTarget]
             ELSE routeRules(Tail(rules), context, users)

\* route, given what the queries returned: the error raised (or None) and the
\* target.
route(context, dealerRules, storeRules, users) ==
    LET rules == getActiveRules(context.storeId, dealerRules, storeRules)
    IN  IF Len(rules) = 0
        THEN [raised |-> "NoRoutingRuleError", target |-> Null]
        ELSE routeRules(rules, context, users)

NoRoute == [op |-> "none", context |-> Null, raised |-> None, target |-> Null]

\* The users that accept transfers now.
AvailableUsers == {u \in dealerUsers : u.status = "active" /\ u.acceptsTransfers}

\* A call of route: each query returns its rows in one of the orders the
\* store may choose.
Route(context) ==
    \E dealerRules \in orderByDesc(DealerRulesWhere(context.dealerId), "priority"),
       storeRules \in orderByDesc(StoreRulesWhere(context.dealerId, context.storeId),
                                  "priority"),
       users \in orderByDesc(AvailableUsers, "transferPriority") :
        LET out == route(context, dealerRules, storeRules, users)
        IN  routeRet' = [op |-> "route", context |-> context, raised |-> out.raised,
                         target |-> out.target]

\* A call of getActiveRules: the list route walks.
GetActiveRulesCall(dealerId, storeId) ==
    \E dealerRules \in orderByDesc(DealerRulesWhere(dealerId), "priority"),
       storeRules \in orderByDesc(StoreRulesWhere(dealerId, storeId), "priority") :
        routeRet' = [op |-> "getActiveRules", dealerId |-> dealerId, storeId |-> storeId,
                     rules |-> getActiveRules(storeId, dealerRules, storeRules)]

\* getFallbackChain: the loop from iteration i on, with the rules pushed so
\* far.  currentRuleId is Null or Str(id).
FallbackDepth == 10

RECURSIVE getFallbackChainLoop(_, _, _, _)
getFallbackChainLoop(i, currentRuleId, chain, depth) ==
    IF ~(i < depth /\ currentRuleId # Null) THEN chain
    ELSE LET rule == findFirst({r \in routingRules : Str(r.id) = currentRuleId})
         IN  IF rule = Undefined THEN chain
             ELSE getFallbackChainLoop(i + 1, rule.row.fallbackRuleId,
                                       Append(chain, rule.row), depth)

\* getFallbackChain as it would be with the loop test i <= 10.
getFallbackChainOneMore(ruleId) ==
    getFallbackChainLoop(0, Str(ruleId), <<>>, FallbackDepth + 1)

getFallbackChain(ruleId) == getFallbackChainLoop(0, Str(ruleId), <<>>, FallbackDepth)

GetFallbackChainCall(ruleId) ==
    routeRet' = [op |-> "getFallbackChain", ruleId |-> ruleId,
                 chain |-> getFallbackChain(ruleId)]

EvaluateRuleConditionsCall(conditions, context) ==
    routeRet' = [op |-> "evaluateRuleConditions", conditions |-> conditions,
                 context |-> context,
                 matches |-> evaluateRuleConditions(conditions, context)]

(***************************************************************************)
(* DealerService: rate limits                                              *)
(***************************************************************************)
\* getRateLimitState: the usage it reports and the limits of the profile.
getRateLimitState(dealerId) ==
    LET profile == getCallingProfile(dealerId)
    IN  [concurrentCalls |-> 0,
         maxConcurrentCalls |-> profile.maxConcurrentCalls,
         callsThisHour |-> 0,
         maxCallsPerHour |-> profile.maxCallsPerHour,
         canMakeCall |-> TRUE]

\* checkRateLimits: the cause of the RateLimitError it raises, or None.
checkRateLimits(dealerId) ==
    LET state == getRateLimitState(dealerId)
    IN  IF state.concurrentCalls >= state.maxConcurrentCalls THEN "concurrent calls"
        ELSE IF state.callsThisHour >= state.maxCallsPerHour THEN "hourly calls"
        ELSE None

NoRate == [op |-> "none", dealerId |-> None, raised |-> None]

CheckRateLimitsCall(dealerId) ==
    rateRet' = [op |-> "checkRateLimits", dealerId |-> dealerId,
                raised |-> checkRateLimits(dealerId)]

(***************************************************************************)
(* Provider callbacks and SWAIG functions on call sessions                 *)
(***************************************************************************)
\* The statuses after which a call is over.
TerminalStatuses == {"completed", "failed", "no_answer", "busy", "voicemail", "transferred"}

\* getCallSession, getCallSessionBySwaigId, getCallSessionBySignalwireSid:
\* the row, or null (session || null).
getCallSession(callSessionId) ==
    LET session == findFirst({s \in callSessions : s.id = callSessionId})
    IN  IF session = Undefined THEN Null ELSE session

getCallSessionBySwaigId(swaigSessionId) ==
    LET session == findFirst({s \in callSessions : s.swaigSessionId = Uuid(swaigSessionId)})
    IN  IF session = Undefined THEN Null ELSE session

getCallSessionBySignalwireSid(signalwireCallSid) ==
    LET session == findFirst({s \in callSessions : s.signalwireCallSid = Str(signalwireCallSid)})
    IN  IF session = Undefined THEN Null ELSE session

\* saveTranscript: the table with one more row; the id is new.
saveTranscript(rows, callSessionId) ==
    rows \cup {[id |-> Cardinality(rows) + 1, callSessionId |-> callSessionId]}

\* inngest.send: one more event sent.
send(events, name, callSessionId) ==
    events \cup {[seq |-> Cardinality(events) + 1, name |-> name,
                  call_session_id |-> callSessionId]}

mapSwaigOutcome(swaigOutcome) ==
    CASE swaigOutcome = "completed" -> "qualified"
      [] swaigOutcome = "transferred" -> "transferred"
      [] swaigOutcome = "appointment_set" -> "appointment_set"
      [] swaigOutcome = "no_answer" -> "no_answer"
      [] swaigOutcome = "busy" -> "no_answer"
      [] swaigOutcome = "failed" -> "no_answer"
      [] swaigOutcome = "opted_out" -> "not_interested"
      [] OTHER -> "qualified"

mapSignalWireStatus(signalwireStatus) ==
    CASE signalwireStatus \in {"queued", "initiated"} -> "initiated"
      [] signalwireStatus = "ringing" -> "ringing"
      [] signalwireStatus = "in-progress" -> "answered"
      [] signalwireStatus = "completed" -> "completed"
      [] signalwireStatus = "failed" -> "failed"
      [] signalwireStatus = "busy" -> "busy"
      [] signalwireStatus = "no-answer" -> "no_answer"
      [] signalwireStatus = "canceled" -> "failed"
      [] OTHER -> "initiated"

\* What is remembered of a delivery: the handler, the reference and the body.
Delivery(name, reference, body) == [name |-> name, reference |-> reference, body |-> body]

NoDelivery == Delivery("none", <<>>, <<>>)

\* POST /webhooks/swaig/call-started
SwaigCallStarted(swaigSessionId, callSid) ==
    LET session == getCallSessionBySwaigId(swaigSessionId)
        input == [signalwireCallSid |-> Str(callSid), status |-> "ringing"]
    IN  /\ callSessions' =
              IF session # Null
              THEN updateCallSession(callSessions, session.row.id, input)
              ELSE callSessions
        /\ storeError' = updateError(session # Null, input)
        /\ lastDelivery' = Delivery("call-started", swaigSessionId, <<callSid>>)
        /\ UNCHANGED <<transcripts, sentEvents>>

\* POST /webhooks/swaig/call-ended; transcript tells whether the body has one.
SwaigCallEnded(swaigSessionId, outcome, duration, transcript) ==
    LET session == getCallSessionBySwaigId(swaigSessionId)
        input == [status |-> "completed", endedAt |-> Num(now),
                  durationSeconds |-> Num(duration),
                  outcome |-> Str(mapSwaigOutcome(outcome))]
    IN  /\ (session # Null /\ transcript) => Cardinality(transcripts) < MaxTranscripts
        /\ callSessions' =
              IF session # Null
              THEN updateCallSession(callSessions, session.row.id, input)
              ELSE callSessions
        /\ storeError' = updateError(session # Null, input)
        /\ transcripts' =
              IF session # Null /\ transcript
              THEN saveTranscript(transcripts, session.row.id) ELSE transcripts
        /\ sentEvents' =
              IF session # Null /\ transcript
              THEN send(sentEvents, "call/transcript-ready", session.row.id) ELSE sentEvents
        /\ lastDelivery' = Delivery("call-ended", swaigSessionId, <<outcome, duration, transcript>>)

\* POST /webhooks/signalwire/status; duration is Undefined without CallDuration.
SignalwireStatus(callSid, callStatus, duration) ==
    LET session == getCallSessionBySignalwireSid(callSid)
        status == [status |-> mapSignalWireStatus(callStatus)]
        updates == IF callStatus = "completed" /\ duration # Undefined
                   THEN [status |-> mapSignalWireStatus(callStatus),
                         durationSeconds |-> duration, endedAt |-> Num(now)]
                   ELSE IF callStatus = "in-progress"
                   THEN [status |-> mapSignalWireStatus(callStatus), answeredAt |-> Num(now)]
                   ELSE status
    IN  /\ callSessions' =
              IF session # Null
              THEN updateCallSession(callSessions, session.row.id, updates)
              ELSE callSessions
        /\ storeError' = updateError(session # Null, updates)
        /\ lastDelivery' = Delivery("status", callSid, <<callStatus, duration>>)
        /\ UNCHANGED <<transcripts, sentEvents>>

\* POST /webhooks/signalwire/conference-status for conference
\* transfer-{callSessionId}.
ConferenceStatus(callSessionId, statusCallbackEvent) ==
    LET session == getCallSession(callSessionId)
        input == [transferCompleted |-> TRUE, status |-> "completed",
                  outcome |-> Str("transferred")]
        completes == /\ statusCallbackEvent = "conference-end"
                     /\ session # Null
                     /\ session.row.transferredToUserId # Null
    IN  /\ callSessions' =
              IF completes THEN updateCallSession(callSessions, callSessionId, input)
              ELSE callSessions
        /\ storeError' = updateError(completes, input)
        /\ lastDelivery' = Delivery("conference-status", callSessionId, <<statusCallbackEvent>>)
        /\ UNCHANGED <<transcripts, sentEvents>>

\* SWAIG function initiate-transfer; dialled tells whether the provider
\* connected and dialled the rep (otherwise the handler answers 500).
InitiateTransfer(callSessionId, dealerId, userId, dialled) ==
    LET callSession == getCallSession(callSessionId)
        rep == findFirst({u \in dealerUsers : u.id = userId /\ u.dealerId = dealerId})
        numbers == {n \in DealerNumberRows : n.dealerId = dealerId /\ n.status = "active"}
        input == [status |-> "transferring", transferredToUserId |-> Uuid(userId)]
        updates == callSession # Null /\ rep # Undefined /\ numbers # {} /\ dialled
    IN  /\ callSessions' =
              IF updates THEN updateCallSession(callSessions, callSessionId, input)
              ELSE callSessions
        /\ storeError' = updateError(updates, input)
        /\ lastDelivery' = Delivery("initiate-transfer", callSessionId, <<dealerId, userId, dialled>>)
        /\ UNCHANGED <<transcripts, sentEvents>>

\* SWAIG function log-qualification, for a qualification without
\* vehicle_interest (the lead is not updated).
LogQualification(callSessionId, qualification) ==
    LET callSession == getCallSession(callSessionId)
        input == [qualification |-> Str(qualification)]
    IN  /\ callSessions' =
              IF callSession # Null
              THEN updateCallSession(callSessions, callSessionId, input)
              ELSE callSessions
        /\ storeError' = updateError(callSession # Null, input)
        /\ lastDelivery' = Delivery("log-qualification", callSessionId, <<qualification>>)
        /\ UNCHANGED <<transcripts, sentEvents>>

\* CallService.markAsTransferred; with completed false the outcome is not
\* set.
MarkAsTransferred(callSessionId, userId, completed) ==
    LET input == IF completed
                 THEN [transferredToUserId |-> Uuid(userId), transferCompleted |-> TRUE,
                       status |-> "transferred", outcome |-> Str("transferred")]
                 ELSE [transferredToUserId |-> Uuid(userId), transferCompleted |-> FALSE,
                       status |-> "in_progress"]
        updated == getCallSession(callSessionId) # Null
    IN  /\ callSessions' = updateCallSession(callSessions, callSessionId, input)
        /\ storeError' = updateError(updated, input)
        /\ lastDelivery' = Delivery("markAsTransferred", callSessionId, <<userId, completed>>)
        /\ UNCHANGED <<transcripts, sentEvents>>

(***************************************************************************)
(* Specifications                                                          *)
(***************************************************************************)
\* No event has arrived.
NoJob ==
    /\ runs = [t \in EventIds |-> IdleRun(CHOOSE e \in Events : e.id = t)]
    /\ callSessions = {}
    /\ aiCalls = {}

\* No transcript, no event sent and no callback delivered.
NoCallbacks ==
    /\ transcripts = {}
    /\ sentEvents = {}
    /\ lastDelivery = NoDelivery
    /\ storeError = None

\* No routing tables and no call of route.
NoRouting ==
    /\ routingRules = {}
    /\ dealerUsers = {}
    /\ routeRet = NoRoute

\* The opt-out methods of LeadService.
InitOptOut ==
    /\ optOuts = {}
    /\ optCheck = NoCheck
    /\ DefaultConfig
    /\ now = 0
    /\ winRet = NoWin
    /\ callAttempts = {}
    /\ retryRet = NoRetry
    /\ NoJob
    /\ NoCallbacks
    /\ rateRet = NoRate
    /\ NoRouting

NextOptOut ==
    \/ /\ \E d \in Dealers, c \in Contacts, t \in OptOutTypes : AddOptOut(d, c[1], c[2], t)
       /\ UNCHANGED <<configVars, windowVars, callVars, jobVars, routingVars, callbackVars, rateVars>>
    \/ /\ \E d \in Dealers, p \in RawPhones, c \in Channels : CheckOptOutCall(d, p, c)
       /\ UNCHANGED <<configVars, windowVars, callVars, jobVars, routingVars, callbackVars, rateVars>>

SpecOptOut == InitOptOut /\ [][NextOptOut]_vars

\* The windows operators have entered for the first dealer.
WindowRows ==
    {[DefaultProfile("d1") EXCEPT !.callingHoursStart = w[1], !.callingHoursEnd = w[2],
                                  !.callingDaysOfWeek = w[3]] :
        w \in {<<(<<9, 0, 0>>), (<<20, 0, 0>>), {1, 2, 3, 4, 5, 6}>>,
               <<(<<0, 0, 0>>), (<<23, 59, 0>>), {0, 1, 2, 3, 4, 5, 6}>>,
               <<(<<9, 30, 0>>), (<<17, 45, 59>>), {1, 3, 5}>>}}

\* The first dealer has a profile row and a zone away from UTC; the second has
\* no profile row.
InitWindow ==
    /\ \E tz \in {"America/New_York", "Asia/Kolkata"} :
          dealerRows = {[id |-> "d1", timezone |-> tz], [id |-> "d2", timezone |-> "UTC"]}
    /\ \E row \in WindowRows : callingProfiles = {row}
    /\ now = 0
    /\ winRet = NoWin
    /\ optOuts = {}
    /\ optCheck = NoCheck
    /\ callAttempts = {}
    /\ retryRet = NoRetry
    /\ NoJob
    /\ NoCallbacks
    /\ rateRet = NoRate
    /\ NoRouting

NextWindow ==
    \/ /\ \E d \in Dealers : IsWithinCallingWindowCall(d)
       /\ UNCHANGED <<optOutVars, configVars, callVars, jobVars, routingVars, callbackVars, rateVars>>
    \/ /\ TickMinute
       /\ UNCHANGED <<optOutVars, configVars, callVars, jobVars, routingVars, callbackVars, rateVars>>

SpecWindow == InitWindow /\ [][NextWindow]_vars

\* Ceilings and delay lists operators have entered for the first dealer.
RetryRows ==
    {[DefaultProfile("d1") EXCEPT !.maxAttemptsPerLead = c[1], !.retryDelayMinutes = c[2]] :
        c \in {<<3, (<<45>>)>>, <<2, (<<0, 60>>)>>, <<4, (<<10, 20>>)>>}}

\* The first dealer has a profile row, the second has none (default profile).
InitRetry ==
    /\ dealerRows = {[id |-> d, timezone |-> "UTC"] : d \in Dealers}
    /\ \E row \in RetryRows : callingProfiles = {row}
    /\ now \in {0, 7 * MinutesPerHour}
    /\ winRet = NoWin
    /\ optOuts = {}
    /\ optCheck = NoCheck
    /\ callAttempts = {}
    /\ retryRet = NoRetry
    /\ NoJob
    /\ NoCallbacks
    /\ rateRet = NoRate
    /\ NoRouting

NextRetry ==
    \/ /\ \E lead \in LeadRows, n \in 1..MaxAttemptNumber : CreateCallAttemptCall(lead, n)
       /\ UNCHANGED <<optOutVars, configVars, windowVars, jobVars, routingVars, callbackVars, rateVars>>
    \/ /\ \E lead \in LeadRows : ScheduleRetryCall(lead)
       /\ UNCHANGED <<optOutVars, configVars, windowVars, jobVars, routingVars, callbackVars, rateVars>>
    \/ /\ \E d \in Dealers, n \in 1..MaxAttemptNumber : GetRetryDelayCall(d, n)
       /\ UNCHANGED <<optOutVars, configVars, windowVars, jobVars, routingVars, callbackVars, rateVars>>

SpecRetry == InitRetry /\ [][NextRetry]_vars

\* The first dealer is in New York with a profile row (09:00-20:00, Monday to
\* Saturday, one call at a time); the second has the default profile in UTC.
\* The clock starts on a Sunday at 14:00 UTC.
JobProfile ==
    [DefaultProfile("d1") EXCEPT !.callingHoursStart = <<9, 0, 0>>,
                                 !.maxConcurrentCalls = 1,
                                 !.maxAttemptsPerLead = 2]

InitJob ==
    /\ dealerRows = {[id |-> "d1", timezone |-> "America/New_York"],
                     [id |-> "d2", timezone |-> "UTC"]}
    /\ callingProfiles = {JobProfile}
    /\ now = 14 * MinutesPerHour
    /\ winRet = NoWin
    /\ optOuts = {}
    /\ optCheck = NoCheck
    /\ callAttempts = {}
    /\ retryRet = NoRetry
    /\ NoJob
    /\ NoCallbacks
    /\ rateRet = NoRate
    /\ NoRouting

NextJob ==
    \/ /\ \E e \in Events : Trigger(e)
       /\ UNCHANGED <<optOutVars, configVars, windowVars, retryRet, routingVars, callbackVars, rateVars>>
    \/ /\ \E t \in EventIds : TriggerCallStep(t)
       /\ UNCHANGED <<optOutVars, configVars, windowVars, retryRet, routingVars, callbackVars, rateVars>>
    \/ /\ \E r \in OptOutRequests : OptOutRecorded(r[1], r[2], r[3])
       /\ UNCHANGED <<configVars, windowVars, callVars, jobVars, routingVars, callbackVars, rateVars>>
    \/ /\ ClockAdvance
       /\ UNCHANGED <<optOutVars, configVars, callVars, jobVars, routingVars, callbackVars, rateVars>>

SpecJob == InitJob /\ [][NextJob]_vars

NoConditions == [key \in {} |-> Undefined]

\* The rules of the two dealers.  fallback is the fallback rule of rule rA.
RuleRows(fallback) ==
    {RuleRow("rA", "d1", Null, 100, [department |-> Str("new")], "user", Str("repA"),
             fallback, TRUE),
     RuleRow("rB", "d1", Null, 1, NoConditions, "user", Str("manager"), Null, TRUE),
     RuleRow("rC", "d1", Null, 10, NoConditions, "user", Str("repB"), Null, TRUE),
     RuleRow("rT", "d1", Null, 10, [intentScore |-> RangeCondition(Num(70), Undefined)],
             "user", Str("manager"), Null, TRUE),
     RuleRow("rS", "d1", Str("s1"), 50, [department |-> Str("service")], "department",
             Null, Null, TRUE),
     RuleRow("rO", "d1", Null, 200, NoConditions, "user", Str("repB"), Null, FALSE),
     RuleRow("rX", "d2", Null, 5, [department |-> InCondition({Str("new"), Str("used")})],
             "team", Null, Str("rV"), TRUE),
     RuleRow("rE", "d2", Null, 3, [intentScore |-> ExistsCondition(TRUE)], "user",
             Str("repB"), Null, TRUE),
     RuleRow("rV", "d2", Null, 1, [department |-> ExistsCondition(FALSE)], "voicemail",
             Null, Null, TRUE)}

UserRows ==
    {UserRow("repA", "d1", Str("new"), 0),
     UserRow("repB", "d1", Str("used"), 0),
     UserRow("manager", "d1", Null, 9),
     UserRow("svc1", "d1", Str("service"), 5),
     UserRow("svc2", "d1", Str("service"), 5)}

\* The contexts route is called with.
Contexts ==
    [dealerId : Dealers,
     storeId : {Undefined, Str("s1")},
     department : {Undefined, Str("new"), Str("service")},
     intentScore : {Undefined, Num(80)}]

\* Rule rA with or without a fallback rule; some users inactive, some not
\* accepting transfers.
InitRouting ==
    /\ \E fallback \in {Null, Str("rB")} : routingRules = RuleRows(fallback)
    /\ \E inactive \in SUBSET {"repA", "manager"}, declines \in SUBSET {"repB", "svc1"} :
          dealerUsers = {[u EXCEPT !.status = IF u.id \in inactive THEN "inactive" ELSE @,
                                   !.acceptsTransfers = u.id \notin declines] :
                            u \in UserRows}
    /\ routeRet = NoRoute
    /\ DefaultConfig
    /\ now = 0
    /\ winRet = NoWin
    /\ optOuts = {}
    /\ optCheck = NoCheck
    /\ callAttempts = {}
    /\ retryRet = NoRetry
    /\ NoJob
    /\ NoCallbacks
    /\ rateRet = NoRate

NextRouting ==
    /\ \E context \in Contexts : Route(context)
    /\ UNCHANGED <<routingRules, dealerUsers>>
    /\ UNCHANGED <<optOutVars, configVars, windowVars, callVars, jobVars, callbackVars, rateVars>>

SpecRouting == InitRouting /\ [][NextRouting]_vars

\* One call has been placed for lead l1 of dealer d1 as initiate-swaig-call
\* places it: its session exists with the SWAIG session id set.  The call is
\* then reported by the provider and handled by the SWAIG functions.
PlacedSession ==
    [NewSession(<<1, 0>>, "d1", "l1", "+19198880001", getLead("l1").lead.phone, 0, 1)
        EXCEPT !.swaigSessionId = Uuid(<<"swaig", 1>>)]

SwaigSessionIds == {<<"swaig", 1>>, <<"swaig", 9>>}
CallSids == {"CA1"}
SwaigOutcomes == {"completed", "no_answer"}
CallStatuses == {"ringing", "in-progress", "completed", "no-answer"}
CallDuration == 30

\* A rep of dealer d2.
OtherDealerUser == UserRow("repX", "d2", Str("new"), 0)

InitCallback ==
    /\ optOuts = {}
    /\ optCheck = NoCheck
    /\ DefaultConfig
    /\ now = 0
    /\ winRet = NoWin
    /\ callAttempts = {}
    /\ retryRet = NoRetry
    /\ runs = [t \in EventIds |-> IdleRun(CHOOSE e \in Events : e.id = t)]
    /\ callSessions = {PlacedSession}
    /\ aiCalls = {}
    /\ NoCallbacks
    /\ rateRet = NoRate
    /\ routingRules = {}
    /\ dealerUsers = UserRows \cup {OtherDealerUser}
    /\ routeRet = NoRoute

CallbackTick ==
    /\ now < MaxCallbackClock
    /\ now' = now + 1

NextCallback ==
    \/ /\ \E swaigSessionId \in SwaigSessionIds, callSid \in CallSids :
              SwaigCallStarted(swaigSessionId, callSid)
       /\ UNCHANGED <<optOutVars, configVars, windowVars, callVars, runs, aiCalls, routingVars, rateVars>>
    \/ /\ \E swaigSessionId \in SwaigSessionIds, outcome \in SwaigOutcomes, transcript \in BOOLEAN :
              SwaigCallEnded(swaigSessionId, outcome, CallDuration, transcript)
       /\ UNCHANGED <<optOutVars, configVars, windowVars, callVars, runs, aiCalls, routingVars, rateVars>>
    \/ /\ \E callSid \in CallSids, callStatus \in CallStatuses, duration \in {Undefined, Num(CallDuration)} :
              SignalwireStatus(callSid, callStatus, duration)
       /\ UNCHANGED <<optOutVars, configVars, windowVars, callVars, runs, aiCalls, routingVars, rateVars>>
    \/ /\ \E event \in {"conference-start", "conference-end"} :
              ConferenceStatus(PlacedSession.id, event)
       /\ UNCHANGED <<optOutVars, configVars, windowVars, callVars, runs, aiCalls, routingVars, rateVars>>
    \/ /\ \E dealerId \in Dealers, userId \in {"repA", "repX"}, dialled \in BOOLEAN :
              InitiateTransfer(PlacedSession.id, dealerId, userId, dialled)
       /\ UNCHANGED <<optOutVars, configVars, windowVars, callVars, runs, aiCalls, routingVars, rateVars>>
    \/ /\ LogQualification(PlacedSession.id, "hot")
       /\ UNCHANGED <<optOutVars, configVars, windowVars, callVars, runs, aiCalls, routingVars, rateVars>>
    \/ /\ \E userId \in {"repA", "repX", "nobody"}, completed \in BOOLEAN :
              MarkAsTransferred(PlacedSession.id, userId, completed)
       /\ UNCHANGED <<optOutVars, configVars, windowVars, callVars, runs, aiCalls, routingVars, rateVars>>
    \/ /\ CallbackTick
       /\ UNCHANGED <<optOutVars, configVars, winRet, callVars, jobVars, routingVars, callbackVars, rateVars>>

SpecCallback == InitCallback /\ [][NextCallback]_vars


\* Three runs of trigger-call at step check-rate-limits: their first two steps
\* have returned (the calling window was open, the lead was loaded and
\* get-lead-and-check-optout let it through).  The three events are of the
\* same lead of dealer d1, whose profile allows two calls at a time.  The
\* clock stands on a Monday at 15:00 UTC.
PipelineEvents ==
    {[id |-> 1, dealer_id |-> "d1", lead_id |-> "l1"],
     [id |-> 2, dealer_id |-> "d1", lead_id |-> "l1"],
     [id |-> 3, dealer_id |-> "d1", lead_id |-> "l1"]}

PipelineProfile == [DefaultProfile("d1") EXCEPT !.maxConcurrentCalls = 2]

RunPastGate(e) ==
    [IdleRun(e) EXCEPT !.pc = "check-rate-limits", !.canCall = TRUE,
                       !.checkedAt = MinutesPerDay + 15 * MinutesPerHour,
                       !.lead = Row(getLead(e.lead_id).lead)]

InitPipeline ==
    /\ dealerRows = {[id |-> "d1", timezone |-> "America/New_York"],
                     [id |-> "d2", timezone |-> "UTC"]}
    /\ callingProfiles = {PipelineProfile}
    /\ now = MinutesPerDay + 15 * MinutesPerHour
    /\ winRet = NoWin
    /\ optOuts = {}
    /\ optCheck = NoCheck
    /\ callAttempts = {}
    /\ retryRet = NoRetry
    /\ runs = [t \in EventIds |-> RunPastGate(CHOOSE e \in PipelineEvents : e.id = t)]
    /\ callSessions = {}
    /\ aiCalls = {}
    /\ NoCallbacks
    /\ rateRet = NoRate
    /\ NoRouting

NextPipeline ==
    /\ \E t \in EventIds : TriggerCallStep(t)
    /\ UNCHANGED <<optOutVars, configVars, windowVars, retryRet, routingVars, callbackVars, rateVars>>

SpecPipeline == InitPipeline /\ [][NextPipeline]_vars


\* Opt-outs are recorded while retries are scheduled with
\* CallService.scheduleRetry.  Both dealers have the default profile.
InitSuppression ==
    /\ optOuts = {}
    /\ optCheck = NoCheck
    /\ DefaultConfig
    /\ now = 0
    /\ winRet = NoWin
    /\ callAttempts = {}
    /\ retryRet = NoRetry
    /\ NoJob
    /\ NoCallbacks
    /\ rateRet = NoRate
    /\ NoRouting

NextSuppression ==
    \/ /\ \E r \in OptOutRequests : OptOutRecorded(r[1], r[2], r[3])
       /\ UNCHANGED <<configVars, windowVars, callVars, jobVars, routingVars, callbackVars, rateVars>>
    \/ /\ \E lead \in LeadRows : ScheduleRetryCall(lead)
       /\ UNCHANGED <<optOutVars, configVars, windowVars, jobVars, routingVars, callbackVars, rateVars>>

SpecSuppression == InitSuppression /\ [][NextSuppression]_vars


\* Events arrive on a Monday at 15:00 UTC, inside both dealers' windows, and
\* the store may reject the opt-out query.
InitOutage ==
    /\ dealerRows = {[id |-> "d1", timezone |-> "America/New_York"],
                     [id |-> "d2", timezone |-> "UTC"]}
    /\ callingProfiles = {JobProfile}
    /\ now = MinutesPerDay + 15 * MinutesPerHour
    /\ winRet = NoWin
    /\ optOuts = {}
    /\ optCheck = NoCheck
    /\ callAttempts = {}
    /\ retryRet = NoRetry
    /\ NoJob
    /\ NoCallbacks
    /\ rateRet = NoRate
    /\ NoRouting

NextOutage ==
    \/ /\ \E e \in Events : Trigger(e)
       /\ UNCHANGED <<optOutVars, configVars, windowVars, retryRet, routingVars, callbackVars, rateVars>>
    \/ /\ \E t \in EventIds : TriggerCallStep(t)
       /\ UNCHANGED <<optOutVars, configVars, windowVars, retryRet, routingVars, callbackVars, rateVars>>
    \/ /\ \E t \in EventIds : OptOutLookupFails(t)
       /\ UNCHANGED <<optOutVars, configVars, windowVars, retryRet, routingVars, callbackVars, rateVars>>

SpecOutage == InitOutage /\ [][NextOutage]_vars


\* Calls of dealer d1 begin and end while checkRateLimits is called.  The
\* profile of d1 allows two calls at a time and two calls an hour.
RateProfile ==
    [DefaultProfile("d1") EXCEPT !.maxConcurrentCalls = 2, !.maxCallsPerHour = 2]

InitRateLimit ==
    /\ dealerRows = {[id |-> "d1", timezone |-> "America/New_York"],
                     [id |-> "d2", timezone |-> "UTC"]}
    /\ callingProfiles = {RateProfile}
    /\ now = MinutesPerDay + 15 * MinutesPerHour
    /\ winRet = NoWin
    /\ optOuts = {}
    /\ optCheck = NoCheck
    /\ callAttempts = {}
    /\ retryRet = NoRetry
    /\ NoJob
    /\ NoCallbacks
    /\ rateRet = NoRate
    /\ NoRouting

\* createCallSession for a lead of a dealer.
CreateCallSessionCall(lead) ==
    /\ Cardinality(callSessions) < MaxSessions
    /\ callSessions' = callSessions \cup
                          {SessionRow(0, lead.dealerId, lead.id, "+19198880001", lead.phone)}
    /\ UNCHANGED <<runs, aiCalls>>

\* updateCallSession when a call has ended.
EndCallSessionCall(callSessionId) ==
    /\ callSessions' = updateCallSession(callSessions, callSessionId,
                                         [status |-> "completed", endedAt |-> Num(now)])
    /\ UNCHANGED <<runs, aiCalls>>

NextRateLimit ==
    \/ /\ \E lead \in LeadRows : CreateCallSessionCall(lead)
       /\ UNCHANGED <<optOutVars, configVars, windowVars, callVars, routingVars, callbackVars, rateVars>>
    \/ /\ \E s \in callSessions : s.status = "initiated" /\ EndCallSessionCall(s.id)
       /\ UNCHANGED <<optOutVars, configVars, windowVars, callVars, routingVars, callbackVars, rateVars>>
    \/ /\ \E d \in Dealers : CheckRateLimitsCall(d)
       /\ UNCHANGED <<optOutVars, configVars, windowVars, callVars, jobVars, routingVars, callbackVars>>

SpecRateLimit == InitRateLimit /\ [][NextRateLimit]_vars


\* The rules of a dealer with two stores.  cA, cB and cC are a fallback chain
\* that closes on itself; cZ is its own fallback; sS and dD have the same
\* priority, one scoped to store s1 and one dealer-wide; oS is scoped to store
\* s2; cI is inactive.
ScopeRules ==
    {RuleRow("cA", "d1", Null, 100, [department |-> Str("new")], "user", Str("repA"),
             Str("cB"), TRUE),
     RuleRow("cB", "d1", Null, 90, [department |-> Str("used")], "user", Str("repB"),
             Str("cC"), TRUE),
     RuleRow("cC", "d1", Null, 80, [department |-> Str("used")], "user", Str("manager"),
             Str("cA"), TRUE),
     RuleRow("oS", "d1", Str("s2"), 60, [intentScore |-> RangeCondition(Num(70), Undefined)],
             "user", Str("svc2"), Null, TRUE),
     RuleRow("sS", "d1", Str("s1"), 50, [intentScore |-> RangeCondition(Num(70), Undefined)],
             "user", Str("repB"), Null, TRUE),
     RuleRow("dD", "d1", Null, 50, [intentScore |-> RangeCondition(Num(70), Undefined)],
             "user", Str("manager"), Null, TRUE),
     RuleRow("cZ", "d1", Null, 5, [department |-> Str("service")], "team", Null,
             Str("cZ"), TRUE),
     RuleRow("cI", "d1", Null, 200, NoConditions, "user", Str("svc1"), Null, FALSE),
     RuleRow("cL", "d1", Null, 1, NoConditions, "user", Str("svc1"), Str("nowhere"), TRUE)}

ScopeContexts ==
    [dealerId : {"d1"},
     storeId : {Undefined, Str("s1")},
     department : {Undefined, Str("new"), Str("service")},
     intentScore : {Undefined, Num(80)}]

InitScope ==
    /\ routingRules = ScopeRules
    /\ \E inactive \in SUBSET {"repA", "repB", "manager", "svc2"} :
          dealerUsers = {[u EXCEPT !.status = IF u.id \in inactive THEN "inactive" ELSE @] :
                            u \in UserRows}
    /\ routeRet = NoRoute
    /\ DefaultConfig
    /\ now = 0
    /\ winRet = NoWin
    /\ optOuts = {}
    /\ optCheck = NoCheck
    /\ callAttempts = {}
    /\ retryRet = NoRetry
    /\ NoJob
    /\ NoCallbacks
    /\ rateRet = NoRate

NextScope ==
    \/ /\ \E context \in ScopeContexts : Route(context)
       /\ UNCHANGED <<routingRules, dealerUsers>>
       /\ UNCHANGED <<optOutVars, configVars, windowVars, callVars, jobVars, callbackVars, rateVars>>
    \/ /\ \E ruleId \in {r.id : r \in routingRules} \cup {"nowhere"} : GetFallbackChainCall(ruleId)
       /\ UNCHANGED <<routingRules, dealerUsers>>
       /\ UNCHANGED <<optOutVars, configVars, windowVars, callVars, jobVars, callbackVars, rateVars>>
    \/ /\ \E storeId \in {Undefined, Str("s1"), Str("s2")} : GetActiveRulesCall("d1", storeId)
       /\ UNCHANGED <<routingRules, dealerUsers>>
       /\ UNCHANGED <<optOutVars, configVars, windowVars, callVars, jobVars, callbackVars, rateVars>>

SpecScope == InitScope /\ [][NextScope]_vars


\* Condition sets of every kind, and contexts whose fields are absent, null or
\* set.
ConditionSets ==
    {NoConditions,
     [department |-> Str("new")],
     [department |-> InCondition({Str("new"), Str("used")})],
     [department |-> ExistsCondition(TRUE)],
     [department |-> ExistsCondition(FALSE)],
     [intentScore |-> RangeCondition(Num(70), Num(100))],
     [intentScore |-> RangeCondition(Num(70), Undefined)],
     [intentScore |-> RangeCondition(Undefined, Num(50))],
     [intentScore |-> Num(80)],
     [department |-> Str("new"), intentScore |-> RangeCondition(Num(70), Undefined)],
     [department |-> ExistsCondition(FALSE), intentScore |-> RangeCondition(Undefined, Num(50))]}

ConditionContexts ==
    [dealerId : {"d1"},
     storeId : {Undefined},
     department : {Undefined, Null, Str("new"), Str("service")},
     intentScore : {Undefined, Null, Num(50), Num(80), Num(101)}]

InitConditions ==
    /\ NoRouting
    /\ DefaultConfig
    /\ now = 0
    /\ winRet = NoWin
    /\ optOuts = {}
    /\ optCheck = NoCheck
    /\ callAttempts = {}
    /\ retryRet = NoRetry
    /\ NoJob
    /\ NoCallbacks
    /\ rateRet = NoRate

NextConditions ==
    /\ \E conditions \in ConditionSets, context \in ConditionContexts :
          EvaluateRuleConditionsCall(conditions, context)
    /\ UNCHANGED <<routingRules, dealerUsers>>
    /\ UNCHANGED <<optOutVars, configVars, windowVars, callVars, jobVars, callbackVars, rateVars>>

SpecConditions == InitConditions /\ [][NextConditions]_vars


(***************************************************************************)
(* Claims                                                                  *)
(***************************************************************************)
\* The step is a call of checkOptOut.
IsCheckStep ==
    /\ optCheck'.seq # optCheck.seq
    /\ optCheck'.op = "checkOptOut"

\* C1: once a record of type 'all' or of the checked channel exists for a
\* dealer and phone, the record stays and every later isOptedOut / checkOptOut
\* for that dealer, phone and channel reports blocked and raises OptOutError.
C1_OnceOptedOutAlwaysBlocked ==
    [][/\ optOuts \subseteq optOuts'
       /\ (/\ IsCheckStep
           /\ HasBlockingRecord(optOuts, optCheck'.dealerId, optCheck'.phone,
                                 optCheck'.channel))
             => optCheck'.result /\ optCheck'.raised = "OptOutError"]_vars

\* A check made while two records exist, one of them blocking the checked
\* channel, reported blocked.
C1_Witness ==
    /\ optCheck.op = "checkOptOut"
    /\ Cardinality(optOuts) = 2
    /\ HasBlockingRecord(optOuts, optCheck.dealerId, optCheck.phone, optCheck.channel)
    /\ optCheck.raised = "OptOutError"

\* C2: isOptedOut returns blocked if and only if a record of the channel or of
\* type 'all' exists for the dealer and phone; with no such record the result
\* is allowed and checkOptOut does not raise.  (No insertion follows a check
\* while optCheck shows it, so optOuts is the table the check read.)
C2_BlockedIffRecord ==
    optCheck.op = "checkOptOut" =>
        /\ optCheck.result <=>
              HasBlockingRecord(optOuts, optCheck.dealerId, optCheck.phone, optCheck.channel)
        /\ ~HasBlockingRecord(optOuts, optCheck.dealerId, optCheck.phone, optCheck.channel)
              => optCheck.raised = None

\* What run t has written: call attempts, call sessions and provider calls.
RowsOfRun(t) ==
    {a \in callAttempts : a.run = t} \cup {c \in callSessions : c.run = t}
        \cup {c \in aiCalls : c.run = t}

\* C3: a run whose lead's phone had an opt-out record of type 'all' or 'call'
\* when the event arrived never gets past the opt-out step: whatever the number
\* of times the step is run it raises OptOutError, the run can only end (inside
\* the window) by failing with OptOutError, and the run creates no call
\* attempt, no call session and no provider call.
C3_OptedOutRunCreatesNothing ==
    \A t \in EventIds :
        runs[t].blockedAtTrigger =>
            /\ RowsOfRun(t) = {}
            /\ runs[t].pc \in {"check-calling-window", "get-lead-and-check-optout",
                               "returned", "failed"}
            /\ runs[t].pc = "returned" => runs[t].result = SkipResult
            /\ runs[t].pc = "failed" => runs[t].error = "OptOutError"
            /\ runs[t].tries > 0 => runs[t].error = "OptOutError"

\* A run for a lead with an 'all' record, inside the window, has failed with
\* OptOutError after the step was run Retries + 1 times.
C3_Witness ==
    \E t \in EventIds :
        /\ runs[t].blockedAtTrigger
        /\ \E r \in optOuts : r.dealerId = runs[t].dealer_id /\ r.optOutType = "all"
        /\ runs[t].canCall
        /\ runs[t].pc = "failed"
        /\ runs[t].error = "OptOutError"
        /\ runs[t].tries = Retries + 1

\* The checked instant on the dealer's wall clock: weekday (0 = Sunday) and
\* minutes since midnight; the window's ends in minutes since midnight.
LocalWeekday(dealerId, date) ==
    toZonedTime(date, getDealer(dealerId).timezone) \div MinutesPerDay

LocalMinuteOfDay(dealerId, date) ==
    toZonedTime(date, getDealer(dealerId).timezone) % MinutesPerDay

WindowStart(dealerId) ==
    getCallingProfile(dealerId).callingHoursStart[1] * MinutesPerHour
      + getCallingProfile(dealerId).callingHoursStart[2]

WindowEnd(dealerId) ==
    getCallingProfile(dealerId).callingHoursEnd[1] * MinutesPerHour
      + getCallingProfile(dealerId).callingHoursEnd[2]

AllowedWeekday(dealerId, date) ==
    LocalWeekday(dealerId, date) \in getCallingProfile(dealerId).callingDaysOfWeek

InsideWindow(dealerId, date) ==
    /\ AllowedWeekday(dealerId, date)
    /\ WindowStart(dealerId) <= LocalMinuteOfDay(dealerId, date)
    /\ LocalMinuteOfDay(dealerId, date) <= WindowEnd(dealerId)

\* C4 as claimed: isWithinCallingWindow is true if and only if the instant in
\* the dealer's zone is on an allowed weekday within [start, end] inclusive; an
\* instant exactly at end (allowed weekday) is inside and the instant one
\* minute later is outside.
C4_WindowIffOneMinuteLaterOutside ==
    winRet.op = "isWithinCallingWindow" =>
        /\ winRet.result <=> InsideWindow(winRet.dealerId, winRet.date)
        /\ (/\ AllowedWeekday(winRet.dealerId, winRet.date)
            /\ WindowStart(winRet.dealerId) <= WindowEnd(winRet.dealerId)
            /\ LocalMinuteOfDay(winRet.dealerId, winRet.date) = WindowEnd(winRet.dealerId))
              => /\ winRet.result
                 /\ ~isWithinCallingWindow(winRet.dealerId, winRet.date + 1)

\* C4 as amended: the same equivalence; an instant exactly at end (allowed
\* weekday) is inside, and an instant whose local minute of the day is end + 1
\* is outside.
C4_WindowIffInclusive ==
    winRet.op = "isWithinCallingWindow" =>
        /\ winRet.result <=> InsideWindow(winRet.dealerId, winRet.date)
        /\ (/\ AllowedWeekday(winRet.dealerId, winRet.date)
            /\ WindowStart(winRet.dealerId) <= WindowEnd(winRet.dealerId)
            /\ LocalMinuteOfDay(winRet.dealerId, winRet.date) = WindowEnd(winRet.dealerId))
              => winRet.result
        /\ LocalMinuteOfDay(winRet.dealerId, winRet.date) = WindowEnd(winRet.dealerId) + 1
              => ~winRet.result

\* A check exactly at the end of the window, inside, at an instant whose UTC
\* weekday is not the dealer's local weekday.
C4_Witness ==
    /\ winRet.op = "isWithinCallingWindow"
    /\ LocalMinuteOfDay(winRet.dealerId, winRet.date) = WindowEnd(winRet.dealerId)
    /\ LocalWeekday(winRet.dealerId, winRet.date) # winRet.date \div MinutesPerDay
    /\ winRet.result

\* C5: a run whose window check happened at an instant outside the dealer's
\* calling window (disallowed weekday or time) has returned the skip result
\* {skipped, outside_calling_hours, will_retry false} and has created no call
\* attempt (so nothing is scheduled for later), no call session and no provider
\* call.
C5_OutsideWindowIsSkip ==
    \A t \in EventIds :
        (/\ runs[t].pc \notin {"idle", "check-calling-window"}
         /\ ~InsideWindow(runs[t].dealer_id, runs[t].checkedAt))
            => /\ runs[t].pc = "returned"
               /\ runs[t].result = SkipResult
               /\ RowsOfRun(t) = {}

\* A run checked the window on a disallowed weekday at an allowed time of day
\* and was skipped; another run was skipped on an allowed weekday at a
\* disallowed time.
C5_Witness ==
    /\ \E t \in EventIds :
          /\ runs[t].result = SkipResult
          /\ ~AllowedWeekday(runs[t].dealer_id, runs[t].checkedAt)
          /\ WindowStart(runs[t].dealer_id) <= LocalMinuteOfDay(runs[t].dealer_id, runs[t].checkedAt)
          /\ LocalMinuteOfDay(runs[t].dealer_id, runs[t].checkedAt) <= WindowEnd(runs[t].dealer_id)
    /\ \E t \in EventIds :
          /\ runs[t].result = SkipResult
          /\ AllowedWeekday(runs[t].dealer_id, runs[t].checkedAt)
    /\ callAttempts = {}

\* C6: a request to create or schedule an attempt whose number exceeds the
\* dealer's maxAttemptsPerLead raises MaxAttemptsError and inserts no row, so
\* no row of call_attempts ever has a number above the ceiling.
C6_BeyondCeilingIsError ==
    /\ \A a \in callAttempts :
          a.attemptNumber <= getCallingProfile(a.dealerId).maxAttemptsPerLead
    /\ (/\ retryRet.op \in {"createCallAttempt", "scheduleRetry"}
        /\ retryRet.attemptNumber > getCallingProfile(retryRet.dealerId).maxAttemptsPerLead)
          => retryRet.raised = "MaxAttemptsError" /\ retryRet.attempt = Null

\* scheduleRetry asked for attempt 4 of a lead of the dealer with the default
\* profile (ceiling 3, delays 30, 120, 1440) and MaxAttemptsError was raised.
C6_Witness ==
    /\ retryRet.op = "scheduleRetry"
    /\ retryRet.dealerId = "d2"
    /\ retryRet.attemptNumber = 4
    /\ retryRet.raised = "MaxAttemptsError"
    /\ Cardinality({a \in callAttempts : a.leadId = retryRet.leadId}) = 3

\* The delay list entry the specification prescribes for an attempt number.
ConfiguredDelay(dealerId, attemptNumber) ==
    LET list == getCallingProfile(dealerId).retryDelayMinutes
    IN  list[Min(attemptNumber - 1, Len(list) - 1) + 1]

\* C7: getRetryDelay returns exactly L[min(n-1, len(L)-1)], whatever the value
\* of the entry, and scheduleRetry schedules the new attempt for now plus that
\* many minutes.
C7_DelayIsConfiguredEntry ==
    /\ retryRet.op \in {"getRetryDelay", "scheduleRetry"}
          => retryRet.delay = ConfiguredDelay(retryRet.dealerId, retryRet.attemptNumber)
    /\ (retryRet.op = "scheduleRetry" /\ retryRet.attempt # Null)
          => retryRet.attempt.row.scheduledFor
               = Num(now + ConfiguredDelay(retryRet.dealerId, retryRet.attemptNumber))

\* The active rules of the context's dealer whose conditions match it.
MatchingRules(context) ==
    {r \in routingRules : /\ r.dealerId = context.dealerId
                          /\ r.active
                          /\ evaluateRuleConditions(r.conditions, context)}

\* The targets the rule itself may resolve to (none: unavailable).
OwnTargets(rule) ==
    {resolveRuleTarget(rule, users) :
        users \in orderByDesc(AvailableUsers, "transferPriority")} \ {Null}

\* The rules the rule names as its fallback.
FallbackRules(rule) == {r \in routingRules : Str(r.id) = rule.fallbackRuleId}

\* The targets a matching rule serves: its own, else its fallback's.
ServedTargets(rule) ==
    IF OwnTargets(rule) # {} THEN OwnTargets(rule)
    ELSE UNION {OwnTargets(b) : b \in FallbackRules(rule)}

\* C8: route is deterministic: with the rules and the users fixed, two
\* evaluations for the same context return the same target or the same error,
\* also when active rules share a priority and whatever the order in which the
\* store returns rows.
C8_RouteIsDeterministic ==
    [][(/\ routeRet.op = "route"
        /\ routeRet'.op = "route"
        /\ routeRet'.context = routeRet.context
        /\ routingRules' = routingRules
        /\ dealerUsers' = dealerUsers)
          => /\ routeRet'.target = routeRet.target
             /\ routeRet'.raised = routeRet.raised]_vars

\* C9: route returns a target served (by the rule itself or by its fallback)
\* by a matching rule such that no matching rule of higher priority serves a
\* target; a matching rule whose target is unavailable does not end the
\* search; route raises an error only when no matching rule serves a target.
C9_FirstServedRuleWins ==
    routeRet.op = "route" =>
        LET served == {r \in MatchingRules(routeRet.context) : ServedTargets(r) # {}}
        IN  IF served = {}
            THEN /\ routeRet.target = Null
                 /\ routeRet.raised \in {"NoRoutingRuleError", "NoAvailableRepError"}
            ELSE /\ routeRet.raised = None
                 /\ \E r \in served :
                       /\ \A q \in served : q.priority <= r.priority
                       /\ routeRet.target \in ServedTargets(r)

\* The scenario of the claim: rule rA (priority 100, department = new, to repA,
\* no fallback) matches and repA is inactive; rule rC (priority 10, no
\* conditions, to repB) is served and the result is repB.
C9_Witness ==
    /\ routeRet.op = "route"
    /\ routeRet.context.department = Str("new")
    /\ \E a \in MatchingRules(routeRet.context) :
          /\ a.priority = 100
          /\ a.routeToId = Str("repA")
          /\ a.fallbackRuleId = Null
          /\ OwnTargets(a) = {}
    /\ \E u \in dealerUsers : u.id = "repA" /\ u.status = "inactive"
    /\ routeRet.target = Row(UserTarget([id |-> "repB"]))

\* C10: when the matching rule of highest priority has no available target
\* and its fallback rule has one, route returns the fallback rule's target.
C10_FallbackBeforeLowerRule ==
    routeRet.op = "route" =>
        \A a \in MatchingRules(routeRet.context) :
            (/\ \A q \in MatchingRules(routeRet.context) \ {a} : q.priority < a.priority
             /\ OwnTargets(a) = {}
             /\ \E b \in FallbackRules(a) : OwnTargets(b) # {})
                => /\ routeRet.raised = None
                   /\ \E b \in FallbackRules(a) : routeRet.target \in OwnTargets(b)

\* Rule rA's target is unavailable, its fallback rB serves the manager, the
\* lower rule rC has repB available, and the result is the manager.
C10_Witness ==
    /\ routeRet.op = "route"
    /\ \E a \in MatchingRules(routeRet.context) :
          /\ \A q \in MatchingRules(routeRet.context) \ {a} : q.priority < a.priority
          /\ OwnTargets(a) = {}
          /\ \E b \in FallbackRules(a) :
                OwnTargets(b) = {Row(UserTarget([id |-> "manager"]))}
          /\ \E c \in MatchingRules(routeRet.context) :
                /\ c.priority < a.priority
                /\ c.fallbackRuleId = Null
                /\ OwnTargets(c) = {Row(UserTarget([id |-> "repB"]))}
    /\ routeRet.target = Row(UserTarget([id |-> "manager"]))

\* C11: route raises NoRoutingRuleError exactly when no active rule's
\* conditions match the context, and NoAvailableRepError exactly when a rule
\* matched but no matching rule served a target (its own or its fallback's);
\* a context matching none of a non-empty rule set never gets
\* NoAvailableRepError.
C11_NoMatchIsNotNoRep ==
    routeRet.op = "route" =>
        LET matching == MatchingRules(routeRet.context)
            served == {r \in matching : ServedTargets(r) # {}}
        IN  /\ routeRet.raised = "NoRoutingRuleError" <=> matching = {}
            /\ routeRet.raised = "NoAvailableRepError" <=> (matching # {} /\ served = {})

\* The columns of a session that tell how the call went: its status and
\* outcome, its timestamps and its handoff fields.
CallRecord(s) ==
    <<s.status, s.outcome, s.answeredAt, s.endedAt, s.durationSeconds,
      s.transferredToUserId, s.transferCompleted>>

\* C12: once the status of a call session is terminal, no later callback or
\* SWAIG function changes its status, outcome, timestamps or handoff fields.
C12_TerminalSessionIsFrozen ==
    [][\A s \in callSessions :
          s.status \in TerminalStatuses =>
              \E after \in callSessions' :
                  after.id = s.id /\ CallRecord(after) = CallRecord(s)]_vars

\* C13: delivering the callback that was delivered last once more changes
\* nothing: no second transcript row, no second call/transcript-ready event,
\* and the same call record on every session.
C13_DuplicateDeliveryChangesNothing ==
    [][(lastDelivery # NoDelivery /\ lastDelivery' = lastDelivery) =>
          /\ transcripts' = transcripts
          /\ sentEvents' = sentEvents
          /\ \A s \in callSessions :
                \E after \in callSessions' :
                    after.id = s.id /\ CallRecord(after) = CallRecord(s)]_vars

\* The sessions of the dealer for which the provider placed a call.
PlacedCalls(dealerId) ==
    {s \in callSessions : s.dealerId = dealerId /\ s.swaigSessionId # Null}

InFlightAttempts(leadId) ==
    {a \in callAttempts :
        /\ a.leadId = leadId
        /\ a.status = "calling"
        /\ \E s \in callSessions :
              a.callSessionId = Uuid(s.id) /\ s.status \notin TerminalStatuses}

C17_NoAttemptAfterOptOut ==
    [][\A lead \in LeadRows :
          HasBlockingRecord(optOuts, lead.dealerId, lead.phone, "call") =>
              {a \in callAttempts' : a.leadId = lead.id} \subseteq callAttempts]_vars

\* The attempts of the lead.
AttemptsOf(leadId) == {a \in callAttempts : a.leadId = leadId}

C19_LookupFailureFailsClosed ==
    \A t \in EventIds :
        runs[t].error = "StorageError" =>
            /\ runs[t].pc = "failed"
            /\ RowsOfRun(t) = {}

RateLimitCause(dealerId) ==
    LET profile == getCallingProfile(dealerId)
    IN  IF getCurrentConcurrentCalls(dealerId) >= profile.maxConcurrentCalls
        THEN "concurrent calls"
        ELSE IF getCallsInLastHour(dealerId) >= profile.maxCallsPerHour
        THEN "hourly calls"
        ELSE None

\* C21: a call of checkRateLimits raises RateLimitError with cause 'concurrent
\* calls' when the dealer's calls in flight are at the ceiling, with cause
\* 'hourly calls' when the calls of the trailing 60 minutes are, and passes
\* otherwise, by the call records at the time of the call.
C21_RateLimitErrorByRecords ==
    [][rateRet' # rateRet => rateRet'.raised = RateLimitCause(rateRet'.dealerId)]_vars

\* C22: when the matching rule of highest priority and its fallback have no
\* available target and the fallback's fallback has one, route returns that
\* target.
C22_FallbackOfFallback ==
    routeRet.op = "route" =>
        \A a \in MatchingRules(routeRet.context) :
            (/\ \A q \in MatchingRules(routeRet.context) \ {a} : q.priority < a.priority
             /\ OwnTargets(a) = {}
             /\ \A b \in FallbackRules(a) : OwnTargets(b) = {}
             /\ \E b \in FallbackRules(a) : \E c \in FallbackRules(b) : OwnTargets(c) # {})
                => /\ routeRet.raised = None
                   /\ \E b \in FallbackRules(a) : \E c \in FallbackRules(b) :
                         routeRet.target \in OwnTargets(c)

\* How far along the session graph a status is.
StatusRank(status) ==
    CASE status = "initiated" -> 0
      [] status = "ringing" -> 1
      [] status = "answered" -> 2
      [] status = "in_progress" -> 3
      [] status = "transferring" -> 4
      [] OTHER -> 5

\* C23: the status of a call session never moves back to an earlier state of
\* the session graph, whatever the order of the callbacks.
C23_StatusNeverMovesBack ==
    [][\A s \in callSessions : \A after \in callSessions' :
          after.id = s.id => StatusRank(after.status) >= StatusRank(s.status)]_vars

ConditionMatches(conditionValue, contextValue) ==
    IF conditionValue.kind # "object" THEN StrictEquals(contextValue, conditionValue)
    ELSE IF conditionValue.has \cap {"min", "max"} # {}
    THEN /\ contextValue.kind = "number"
         /\ "min" \in conditionValue.has => contextValue.value >= conditionValue.min.value
         /\ "max" \in conditionValue.has => contextValue.value <= conditionValue.max.value
    ELSE IF "in" \in conditionValue.has
    THEN \E v \in conditionValue.in : StrictEquals(v, contextValue)
    ELSE conditionValue.exists <=> contextValue.kind \notin {"undefined", "null"}

\* C25: a rule matches a context if and only if every one of its conditions
\* matches; an absent or null field is in no range; the empty condition set
\* matches every context.
C25_MatchesIffEveryCondition ==
    routeRet.op = "evaluateRuleConditions" =>
        (routeRet.matches <=>
            \A key \in DOMAIN routeRet.conditions :
                ConditionMatches(routeRet.conditions[key], routeRet.context[key]))

\* The first place of the rule in the list.
FirstIndex(rules, rule) ==
    CHOOSE i \in 1..Len(rules) : rules[i] = rule /\ \A j \in 1..(i - 1) : rules[j] # rule

\* C26: with a store id the rules come in descending priority and, among rules
\* of equal priority, every rule scoped to that store is reached before every
\* dealer-wide rule.
C26_StoreRulesFirst ==
    (routeRet.op = "getActiveRules" /\ routeRet.storeId # Undefined) =>
        LET rules == routeRet.rules
            Listed == {rules[i] : i \in 1..Len(rules)}
        IN  /\ \A i, j \in 1..Len(rules) : i < j => rules[i].priority >= rules[j].priority
            /\ \A s, d \in Listed :
                  (/\ s.storeId = routeRet.storeId
                   /\ d.storeId = Null
                   /\ s.priority = d.priority)
                      => FirstIndex(rules, s) < FirstIndex(rules, d)

\* The store returned the dealer-wide rule before the store's rule of the same
\* priority, and the list has the store's rule first.
C26_Witness ==
    /\ routeRet.op = "getActiveRules"
    /\ routeRet.storeId = Str("s1")
    /\ \E i, j, k \in 1..Len(routeRet.rules) :
          /\ i < j /\ j < k
          /\ routeRet.rules[i].id = "sS"
          /\ routeRet.rules[j].id = "dD"
          /\ routeRet.rules[k].id = "sS"

\* C27: following fallbacks ends on every rule set, cycles and a rule that is
\* its own fallback included: route returns a target or an error, and
\* getFallbackChain returns at most ten rules, the first the rule asked for
\* and each next one the fallback of the one before it.
C27_FallbackTraversalEnds ==
    /\ routeRet.op = "route" =>
          \/ routeRet.raised = None /\ routeRet.target # Null
          \/ routeRet.raised \in {"NoRoutingRuleError", "NoAvailableRepError"}
    /\ routeRet.op = "getFallbackChain" =>
          LET chain == routeRet.chain
          IN  /\ Len(chain) <= FallbackDepth
              /\ (\E r \in routingRules : r.id = routeRet.ruleId) <=> chain # <<>>
              /\ chain # <<>> => chain[1].id = routeRet.ruleId
              /\ \A i \in 1..(Len(chain) - 1) :
                    /\ chain[i] \in routingRules
                    /\ chain[i].fallbackRuleId = Str(chain[i + 1].id)

\* The chain of a rule on the cycle cA, cB, cC went round it and stopped at
\* ten rules; so did the chain of the rule that is its own fallback.
C27_Witness ==
    /\ routeRet.op = "getFallbackChain"
    /\ routeRet.ruleId \in {"cA", "cZ"}
    /\ Len(routeRet.chain) = FallbackDepth
    /\ routeRet.chain[FallbackDepth].id = routeRet.ruleId

\* C28: the user a session was transferred to belongs to the session's
\* dealer.
C28_RecipientOfSameDealer ==
    \A s \in callSessions :
        s.transferredToUserId # Null =>
            \E u \in dealerUsers : Uuid(u.id) = s.transferredToUserId /\ u.dealerId = s.dealerId

\* C29: every status an operation writes to a call session is one the
\* call_sessions table permits, so the store rejects no update for its status.
C29_StatusWritesArePermitted ==
    /\ storeError # "check_violation"
    /\ \A s \in callSessions : s.status \in PermittedStatuses

\* The rules that may decide for the context: active rules of its dealer that
\* are dealer-wide or scoped to its store.
InScope(rule, context) ==
    /\ rule.dealerId = context.dealerId
    /\ rule.active
    /\ rule.storeId = Null \/ rule.storeId = context.storeId

\* C30: with a store id, the target route returns is the target of a matching
\* active rule of the dealer that is dealer-wide or scoped to that store, or of
\* such a rule's fallback rule, itself active, of the dealer and dealer-wide or
\* scoped to that store.
C30_OnlyRulesInScopeDecide ==
    (/\ routeRet.op = "route"
     /\ routeRet.context.storeId # Undefined
     /\ routeRet.raised = None) =>
        \E a \in MatchingRules(routeRet.context) :
            /\ InScope(a, routeRet.context)
            /\ \/ routeRet.target \in OwnTargets(a)
               \/ \E b \in FallbackRules(a) :
                     InScope(b, routeRet.context) /\ routeRet.target \in OwnTargets(b)

====
